---- MODULE Spec2Model ----
(***************************************************************************)
(* FTP -> Google Photos pipeline (ftp_to_gphotos.py) with its persistent   *)
(* state store (state_manager.py).                                         *)
(*                                                                         *)
(* Sizes are counted in MiB (one unit = 2^20 bytes), so 1 GiB = 1024.      *)
(* File names are sequences of tokens: a token is one character, or a      *)
(* file extension such as ".mkv" whose characters are all kept by the      *)
(* file-name sanitiser.  A remote path is the sequence of the tokens of    *)
(* its components separated by the token "/".                              *)
(* Wall-clock timestamps (last_updated, started_at, timestamp, ...) take   *)
(* no part in any decision of the code and are left out of the records.    *)
(***************************************************************************)
EXTENDS Integers, Sequences, FiniteSets, TLC

VARIABLES
    remote,       \* which remote tree the FTP server holds
    state,        \* StateManager.state of the running process (in memory)
    stateFile,    \* content of upload_state.json
    tempFile,     \* content of upload_state.tmp
    local,        \* files of temp_dir: file name -> size
    pc,           \* position of the (single-threaded) process
    ret,          \* position _save_state returns to
    todo,         \* directories still to traverse (depth-first order)
    queue,        \* files of the current directory still to process
    cur,          \* file_info of the process_file call in progress
    local_path,   \* local_path of the process_file call in progress
    attempt,      \* download attempt of process_file
    uattempt,     \* upload attempt of upload_to_google_photos
    media_key,    \* key returned by upload_to_google_photos
    successful,   \* traverse_and_process_depth_first: successful count
    failed,       \* traverse_and_process_depth_first: failed count
    error,        \* exception that reached main() in this run
    runs,         \* number of process starts so far
    saveFailures, \* _save_state calls that failed in this run
    dirty,        \* a _save_state failed and no later one succeeded
    committed,    \* records as of the last mark_* call that returned
    atLoad,       \* state as loaded by the running process
    crash,        \* what the last crash interrupted
    calls,        \* calls made by the process_file call in progress
    processed,    \* paths whose process_file call ended in this run
    outcome,      \* how the process_file call in progress ended ("" until then)
    free,         \* free space its disk check found, kept while the download
                  \* loop runs (-1 before the check and after the loop)
    proc,         \* one stream_file_from_ftp call seen from inside: its local
                  \* variables, its rclone child process and its return value
    ftp,          \* one FTPDownloader.download_file call: its local variables,
                  \* the local file and the FTP control connection
    mux           \* one remux_to_mkv call: its local variables, the ffmpeg
                  \* child, its two pipes and the two reader threads

vars == <<remote, state, stateFile, tempFile, local, pc, ret, todo, queue,
          cur, local_path, attempt, uattempt, media_key, successful, failed,
          error, runs, saveFailures, dirty, committed, atLoad,
          crash, calls, processed, outcome, free, proc, ftp, mux>>

----------------------------------------------------------------------------
(* Bounds of the model *)

MaxRuns == 2          \* process starts (first run and restarts)
MaxSaveFailures == 1  \* _save_state calls that fail, per run
MaxMarks == 3         \* mark_* calls on a StateManager used on its own
MaxTime == 700        \* seconds one rclone child process is followed for
MaxBlocks == 3        \* length of the remote file of a download_file call
MaxLines == 1         \* lines ffmpeg writes during a remux_to_mkv call

----------------------------------------------------------------------------
(* Constants of the program *)

GB == 1024
MIN_FILE_SIZE == 1 * GB
MAX_FILE_SIZE == 50 * GB
SUPPORTED_EXTENSIONS == {".mkv", ".iso", ".mp4", ".m4v", ".avi", ".m2ts"}
MAX_RETRIES == 3
RETRY_DELAY == 60
TIMEOUT_SECONDS == 600
max_download_attempts == 5
max_failures == 3
DiskBuffer == 2 * GB
SizeTolerance == 10

----------------------------------------------------------------------------
(* Generic helpers *)

Remove(f, k) == [x \in DOMAIN f \ {k} |-> f[x]]

Put(f, k, v) == [x \in DOMAIN f \cup {k} |-> IF x = k THEN v ELSE f[x]]

EmptyMap == [x \in {} |-> 0]

Abs(x) == IF x < 0 THEN 0 - x ELSE x

NoneSlot == << >>

None == "null"

----------------------------------------------------------------------------
(* The remote FTP tree, as rclone lists it *)

NameA == <<"a", ".mkv">>
NameB == <<"B", "(", ".mkv">>
NameC == <<"c", ".mkv">>
NameT == <<"t", ".mkv">>
NameN == <<"n", ".txt">>
DirD  == <<"d">>

DirE  == <<"e">>
DirS  == <<"s">>

\* A third remote tree, "deep": two levels of subdirectories, listed in an
\* order that is neither alphabetical nor by size
DeepLs(path) ==
    IF path = << >> THEN
        << [name |-> NameA, size |-> 3 * GB],
           [name |-> NameT, size |-> 512],
           [name |-> NameC, size |-> 2 * GB] >>
    ELSE IF path = DirE THEN
        << [name |-> NameC, size |-> 2 * GB] >>
    ELSE IF path = DirE \o <<"/">> \o DirS THEN
        << [name |-> NameA, size |-> 4 * GB],
           [name |-> NameC, size |-> 2 * GB] >>
    ELSE IF path = DirD THEN
        << [name |-> NameC, size |-> 3 * GB],
           [name |-> NameA, size |-> 2 * GB],
           [name |-> NameT, size |-> 2 * GB] >>
    ELSE << >>

DeepLsd(path) ==
    IF path = << >> THEN << DirE, DirD >>
    ELSE IF path = DirE THEN << DirS >>
    ELSE << >>

\* rclone ls --max-depth 1: (size, name) lines in listing order.  Two remote
\* trees: "plain" holds two candidates with plain names, one of them in the
\* subdirectory, and the oddly named file is too large to qualify; in "odd"
\* the oddly named file is the only candidate.
RemoteLs(path) ==
    IF remote = "deep" THEN DeepLs(path)
    ELSE IF path = << >> THEN
        << [name |-> NameB, size |-> IF remote = "odd" THEN 40 * GB ELSE 60 * GB],
           [name |-> NameT, size |-> 512],
           [name |-> NameN, size |-> 2 * GB],
           [name |-> NameA, size |-> IF remote = "odd" THEN 512 ELSE 2 * GB] >>
    ELSE IF path = DirD THEN
        << [name |-> NameC, size |-> IF remote = "odd" THEN 512 ELSE 3 * GB] >>
    ELSE << >>

\* rclone lsd: directory names in listing order
RemoteLsd(path) ==
    IF remote = "deep" THEN DeepLsd(path)
    ELSE IF path = << >> THEN << DirD >> ELSE << >>

\* str.lower() on one token
LowerTok(t) == IF t = "B" THEN "b" ELSE t

Lower(name) == [i \in 1..Len(name) |-> LowerTok(name[i])]

\* os.path.join(path, file_name) if path else file_name
PathJoin(path, name) == IF path = << >> THEN name ELSE path \o <<"/">> \o name

RECURSIVE basename(_)
basename(p) ==
    IF \E i \in 1..Len(p) : p[i] = "/"
    THEN basename(Tail(p))
    ELSE p

\* c.isalnum() or c in "._- "
SafeTok(t) == t \in {"a", "b", "B", "c", "t", "n", "d", ".", "_", "-", " "}
                    \cup SUPPORTED_EXTENSIONS \cup {".txt"}

safe_name(file_name) == SelectSeq(file_name, SafeTok)

RECURSIVE Insert(_, _)
Insert(sorted, f) ==
    IF sorted = << >> THEN <<f>>
    ELSE IF f.size < Head(sorted).size THEN <<f>> \o sorted
    ELSE <<Head(sorted)>> \o Insert(Tail(sorted), f)

\* variant: the files stay in listing order
SortBySize_ListingOrder(fs) == fs

RECURSIVE SortBySize(_)
SortBySize(fs) ==
    IF fs = << >> THEN << >>
    ELSE Insert(SortBySize(SubSeq(fs, 1, Len(fs) - 1)), fs[Len(fs)])

Qualifies(line) ==
    /\ Lower(line.name)[Len(line.name)] \in SUPPORTED_EXTENSIONS
    /\ MIN_FILE_SIZE <= line.size
    /\ line.size <= MAX_FILE_SIZE

RECURSIVE FileInfos(_, _)
FileInfos(path, lines) ==
    IF lines = << >> THEN << >>
    ELSE (IF Qualifies(Head(lines))
          THEN << [path |-> PathJoin(path, Head(lines).name),
                   size |-> Head(lines).size] >>
          ELSE << >>) \o FileInfos(path, Tail(lines))

list_files_in_directory(path) == SortBySize(FileInfos(path, RemoteLs(path)))

list_directories(path) == RemoteLsd(path)

\* subpath = f"{path}/{subdir}" if path else subdir, for each subdir in order
SubPaths(path) ==
    [i \in 1..Len(list_directories(path)) |->
        PathJoin(path, list_directories(path)[i])]

Range(s) == {s[i] : i \in 1..Len(s)}

\* Every file the traversal hands to process_file
Candidates ==
    Range(list_files_in_directory(<< >>)) \cup Range(list_files_in_directory(DirD))

CandidatePaths == {f.path : f \in Candidates}

----------------------------------------------------------------------------
(* state_manager.py *)

_create_new_state ==
    [version     |-> "2.0",
     completed   |-> EmptyMap,
     failed      |-> EmptyMap,
     in_progress |-> NoneSlot,
     skipped     |-> << >>,
     stats       |-> [total_uploaded |-> 0, total_failed |-> 0, total_bytes |-> 0]]

\* A file of the state directory: absent, a partially written document, or
\* a complete JSON document.  json.dump / json.load keep the structure of
\* the state (string keys, numbers, null, objects, arrays).
Absent == [kind |-> "absent", doc |-> _create_new_state]
Partial == [kind |-> "partial", doc |-> _create_new_state]
Document(s) == [kind |-> "doc", doc |-> s]

\* variant: loading forgets the in-progress slot
_load_state_ClearsSlot(file) ==
    IF file.kind = "doc" THEN [file.doc EXCEPT !.in_progress = NoneSlot]
    ELSE _create_new_state

\* isinstance(x, list): a JSON array, as opposed to an object keyed by path
IsList(x) == DOMAIN x = 1..Cardinality(DOMAIN x)

\* lines 26-38: completed list of the v1.0 format -> path-keyed records
Migrated(doc) ==
    [doc EXCEPT
        !.completed = [file_path \in Range(doc.completed) |->
                          [media_key |-> None, size |-> 0]],
        !.version = "2.0"]

\* variant: a v1.0 document is handed out as it was read
_load_state_NoMigration(file) ==
    IF file.kind = "doc" THEN file.doc
    ELSE _create_new_state

\* no state file, or json.load raises on it: a new state; otherwise the
\* document read, migrated if it is of version 1.0 with a completed list
_load_state(file) ==
    IF file.kind = "doc"
    THEN IF file.doc.version = "1.0" /\ IsList(file.doc.completed)
         THEN Migrated(file.doc)
         ELSE file.doc
    ELSE _create_new_state

\* variant: the completed records are never consulted
is_completed_Never(s, file_path) == FALSE

is_completed(s, file_path) == file_path \in DOMAIN s.completed

is_failed(s, file_path) == file_path \in DOMAIN s.failed

get_failure_count(s, file_path) ==
    IF file_path \in DOMAIN s.failed THEN s.failed[file_path].attempts ELSE 0

\* variant: a path is given up only after more than max_failures failures
should_retry_OneMore(s, file_path) ==
    IF ~is_failed(s, file_path) THEN TRUE
    ELSE get_failure_count(s, file_path) <= max_failures

should_retry(s, file_path) ==
    IF ~is_failed(s, file_path) THEN TRUE
    ELSE get_failure_count(s, file_path) < max_failures

mark_in_progress(s, file_path, size_bytes) ==
    [s EXCEPT !.in_progress = << [path |-> file_path, size |-> size_bytes] >>]

\* variant: the counters grow on every call
mark_completed_AlwaysCounts(s, file_path, size_bytes, key) ==
    [s EXCEPT
        !.stats = [@ EXCEPT !.total_uploaded = @ + 1,
                            !.total_bytes = @ + size_bytes],
        !.completed = Put(@, file_path,
                          [media_key |-> key, size |-> size_bytes,
                           album_name |-> None]),
        !.failed = IF file_path \in DOMAIN @ THEN Remove(@, file_path) ELSE @,
        !.in_progress = NoneSlot]

mark_completed(s, file_path, size_bytes, key) ==
    [s EXCEPT
        !.stats = IF file_path \notin DOMAIN s.completed
                  THEN [@ EXCEPT !.total_uploaded = @ + 1,
                                 !.total_bytes = @ + size_bytes]
                  ELSE @,
        !.completed = Put(@, file_path,
                          [media_key |-> key, size |-> size_bytes,
                           album_name |-> None]),
        !.failed = IF file_path \in DOMAIN @ THEN Remove(@, file_path) ELSE @,
        !.in_progress = NoneSlot]

\* variant: the record is created anew on every call
mark_failed_StartsOver(s, file_path, reason) ==
    [s EXCEPT
        !.failed = Put(@, file_path, [attempts |-> 1, last_error |-> reason]),
        !.stats = [@ EXCEPT !.total_failed = @ + 1],
        !.in_progress = NoneSlot]

mark_failed(s, file_path, reason) ==
    LET old == IF file_path \in DOMAIN s.failed
               THEN s.failed[file_path]
               ELSE [attempts |-> 0, last_error |-> ""]
    IN [s EXCEPT
        !.failed = Put(@, file_path,
                       [attempts |-> old.attempts + 1, last_error |-> reason]),
        !.stats = [@ EXCEPT !.total_failed = @ + 1],
        !.in_progress = NoneSlot]

mark_skipped(s, file_path, reason) ==
    [s EXCEPT
        !.skipped = IF file_path \in Range(@) THEN @ ELSE Append(@, file_path),
        !.in_progress = NoneSlot]

Records(s) == [completed |-> s.completed, failed |-> s.failed]

----------------------------------------------------------------------------
(* Environment: what the disk, the transfer tool and the upload answer *)

\* shutil.disk_usage(temp_dir).free at the moment of the check
FreeChoices == {4 * GB - 1, 4 * GB, 50 * GB}

\* media keys the upload capability hands out
MediaKeys == {"k1"}

\* length of a partial file left behind by a failed transfer
PartialSize == 512

NoFile == [path |-> << >>, size |-> 0]

\* slept: seconds process_file has spent in time.sleep between attempts;
\* waited: seconds upload_to_google_photos has spent in time.sleep;
\* answer: what the client gave back in the last upload attempt
NoCalls == [stream |-> 0, upload |-> 0, mark_failed |-> 0, marks |-> 0,
            slept |-> 0, waited |-> 0, answer |-> ""]

NoCrash == [happened |-> FALSE, slot |-> NoneSlot, insave |-> FALSE,
            dirty |-> FALSE, committed |-> Records(_create_new_state)]

SavePcs == {"save_open", "save_dump", "save_replace"}

\* no download_file call is being looked into
NoSession == [resume_pos |-> 0]

\* no remux_to_mkv call is being looked into
NoRemux == [process |-> "none"]

\* no stream_file_from_ftp call is being looked into.  Times are seconds
\* since start_time, amounts shown by rclone are thousandths of a GiB,
\* amounts transferred are KiB.
NoProcess ==
    [child               |-> "none",  \* "running", "hung", "exited", "killed"
     returncode          |-> 0,
     pipe                |-> 0,       \* lines written and not yet read, once
                                      \* the child is gone
     now                 |-> 0,       \* current_time of the last line read
     last_transferred_gb |-> 0,
     stall_start_time    |-> -1,      \* -1: None
     kill_called         |-> FALSE,   \* process.kill() was called (line 303)
     result              |-> FALSE,   \* what the call returned
     transferred         |-> 0,       \* bytes behind the last sample read
     still_since         |-> -1,      \* time of the first of the samples read
                                      \* last that brought no byte (-1: the
                                      \* last sample brought some)
     sample_time         |-> 0,       \* time of the last sample read
     all_big             |-> TRUE]    \* every sample so far brought > 10 MB

----------------------------------------------------------------------------
(* Initial state: no process runs.  Either nothing has run yet and no state *)
(* file exists, or two earlier runs have each failed to download the oddly  *)
(* named file and left their state file behind.                            *)

EarlierRuns ==
    [_create_new_state EXCEPT
        !.failed = Put(EmptyMap, NameB,
                       [attempts |-> 2,
                        last_error |-> "Failed to download after 5 attempts"]),
        !.stats = [@ EXCEPT !.total_failed = 2]]


Init ==
    /\ \/ remote = "plain" /\ stateFile = Absent
       \/ remote = "odd" /\ stateFile \in {Absent, Document(EarlierRuns)}
    /\ state = _create_new_state
    /\ tempFile = Absent
    /\ local = EmptyMap
    /\ pc = "stopped"
    /\ ret = "stopped"
    /\ todo = << >>
    /\ queue = << >>
    /\ cur = NoFile
    /\ local_path = << >>
    /\ attempt = 0
    /\ uattempt = 0
    /\ media_key = None
    /\ successful = 0
    /\ failed = 0
    /\ error = ""
    /\ runs = 0
    /\ saveFailures = 0
    /\ dirty = FALSE
    /\ committed = Records(_create_new_state)
    /\ atLoad = _create_new_state
    /\ crash = NoCrash
    /\ calls = NoCalls
    /\ processed = {}
    /\ outcome = ""
    /\ free = -1
    /\ proc = NoProcess
    /\ ftp = NoSession
    /\ mux = NoRemux

----------------------------------------------------------------------------
(* StateManager._save_state, step by step (a crash may fall between steps) *)

\* variant: the document is written into the state file itself
SaveOpenTemp_InPlace ==
    /\ pc = "save_open"
    /\ stateFile' = Partial
    /\ pc' = "save_dump"
    /\ UNCHANGED <<remote, saveFailures, state, tempFile, local, ret, todo,
                   queue, cur, local_path, attempt, uattempt, media_key,
                   successful, failed, error, runs, dirty, committed, atLoad,
                   crash, calls, processed, outcome, free, proc, ftp, mux>>

\* with open(temp_file, 'w'): the temp file is created or truncated
SaveOpenTemp ==
    /\ pc = "save_open"
    /\ tempFile' = Partial
    /\ pc' = "save_dump"
    /\ UNCHANGED <<remote, saveFailures, state, stateFile, local, ret, todo,
                   queue, cur, local_path, attempt, uattempt, media_key,
                   successful, failed, error, runs, dirty, committed, atLoad,
                   crash, calls, processed, outcome, free, proc, ftp, mux>>

\* json.dump(self.state, f) and close: the temp file holds the whole document
SaveDump ==
    /\ pc = "save_dump"
    /\ tempFile' = Document(state)
    /\ pc' = "save_replace"
    /\ UNCHANGED <<remote, saveFailures, state, stateFile, local, ret, todo,
                   queue, cur, local_path, attempt, uattempt, media_key,
                   successful, failed, error, runs, dirty, committed, atLoad,
                   crash, calls, processed, outcome, free, proc, ftp, mux>>

\* variant: the temp file is dropped instead of renamed
SaveReplace_KeepsOldFile ==
    /\ pc = "save_replace"
    /\ stateFile' = stateFile
    /\ tempFile' = Absent
    /\ pc' = ret
    /\ dirty' = FALSE
    /\ committed' = Records(state)
    /\ UNCHANGED <<remote, saveFailures, state, local, ret, todo, queue, cur,
                   local_path, attempt, uattempt, media_key, successful,
                   failed, error, runs, atLoad, crash, calls, processed,
                   outcome, free, proc, ftp, mux>>

\* temp_file.replace(self.state_file): atomic rename; the mark_* call returns
SaveReplace ==
    /\ pc = "save_replace"
    /\ stateFile' = tempFile
    /\ tempFile' = Absent
    /\ pc' = ret
    /\ dirty' = FALSE
    /\ committed' = Records(state)
    /\ UNCHANGED <<remote, saveFailures, state, local, ret, todo, queue, cur,
                   local_path, attempt, uattempt, media_key, successful,
                   failed, error, runs, atLoad, crash, calls, processed,
                   outcome, free, proc, ftp, mux>>

\* variant: the failure of the write is raised to the caller
SaveFails_Raises ==
    /\ pc = "save_dump"
    /\ saveFailures < MaxSaveFailures
    /\ saveFailures' = saveFailures + 1
    /\ pc' = ret
    /\ dirty' = TRUE
    /\ committed' = Records(state)
    /\ error' = "OSError"
    /\ UNCHANGED <<remote, state, stateFile, tempFile, local, ret, todo, queue,
                   cur, local_path, attempt, uattempt, media_key, successful,
                   failed, runs, atLoad, crash, calls, processed, outcome,
                   free, proc, ftp, mux>>

\* json.dump raises (disk full, ...): the temp file stays partly written and
\* except Exception prints the failure and swallows it.  A failure of open()
\* or of replace() differs only in what it leaves in the temp file.
SaveFails ==
    /\ pc = "save_dump"
    /\ saveFailures < MaxSaveFailures
    /\ saveFailures' = saveFailures + 1
    /\ pc' = ret
    /\ dirty' = TRUE
    /\ committed' = Records(state)
    /\ UNCHANGED <<remote, state, stateFile, tempFile, local, ret, todo, queue,
                   cur, local_path, attempt, uattempt, media_key, successful,
                   failed, error, runs, atLoad, crash, calls, processed,
                   outcome, free, proc, ftp, mux>>

----------------------------------------------------------------------------
(* main() *)

\* state = StateManager(): the state file is loaded once at process start
LoadState ==
    /\ pc = "stopped"
    /\ runs < MaxRuns
    /\ runs' = runs + 1
    /\ state' = _load_state(stateFile)
    /\ atLoad' = _load_state(stateFile)
    /\ committed' = Records(_load_state(stateFile))
    /\ dirty' = FALSE
    /\ error' = ""
    /\ saveFailures' = 0
    /\ pc' = "loaded"
    /\ UNCHANGED <<remote, stateFile, tempFile, local, ret, todo, queue, cur,
                   local_path, attempt, uattempt, media_key, successful,
                   failed, crash, calls, processed, outcome, free, proc, ftp, mux>>

\* temp_dir: /workspace/ftp_gphotos_temp if /workspace exists (its files are
\* still there), else a new empty mkdtemp directory; the traversal starts
MakeTempDir ==
    /\ pc = "loaded"
    /\ \E persistent \in BOOLEAN :
          local' = IF persistent THEN local ELSE EmptyMap
    /\ todo' = << << >> >>
    /\ queue' = << >>
    /\ successful' = 0
    /\ failed' = 0
    /\ processed' = {}
    /\ calls' = NoCalls
    /\ free' = -1
    /\ crash' = NoCrash
    /\ pc' = "traverse"
    /\ UNCHANGED <<remote, saveFailures, state, stateFile, tempFile, ret, cur,
                   local_path, attempt, uattempt, media_key, error, runs,
                   dirty, committed, atLoad, outcome, proc, ftp, mux>>

\* lines 646-669: the traversal returned; print the summary;
\* finally: shutil.rmtree(temp_dir, ignore_errors=True)
Finish ==
    /\ pc = "traverse"
    /\ queue = << >>
    /\ todo = << >>
    /\ local' = EmptyMap
    /\ pc' = "stopped"
    /\ UNCHANGED <<remote, saveFailures, state, stateFile, tempFile, ret, todo,
                   queue, cur, local_path, attempt, uattempt, media_key,
                   successful, failed, error, runs, dirty, committed, atLoad,
                   crash, calls, processed, outcome, free, proc, ftp, mux>>

\* except Exception: logger.error(...); finally: shutil.rmtree(temp_dir)
MainExcept ==
    /\ pc = "main_except"
    /\ local' = EmptyMap
    /\ pc' = "stopped"
    /\ UNCHANGED <<remote, saveFailures, state, stateFile, tempFile, ret, todo,
                   queue, cur, local_path, attempt, uattempt, media_key,
                   successful, failed, error, runs, dirty, committed, atLoad,
                   crash, calls, processed, outcome, free, proc, ftp, mux>>

----------------------------------------------------------------------------
(* traverse_and_process_depth_first *)

\* The files of the directory are done (or it is the start): the next
\* directory in depth-first order is listed; its qualifying files come first,
\* its subdirectories next, in listing order
TraverseDir ==
    /\ pc = "traverse"
    /\ queue = << >>
    /\ todo # << >>
    /\ queue' = list_files_in_directory(Head(todo))
    /\ todo' = SubPaths(Head(todo)) \o Tail(todo)
    /\ UNCHANGED <<remote, saveFailures, state, stateFile, tempFile, local, pc,
                   ret, cur, local_path, attempt, uattempt, media_key,
                   successful, failed, error, runs, dirty, committed, atLoad,
                   crash, calls, processed, outcome, free, proc, ftp, mux>>

----------------------------------------------------------------------------
(* process_file *)

\* variant: a completed file is skipped but reported as not processed
SkipCompleted_ReportsFailure ==
    /\ pc = "traverse"
    /\ queue # << >>
    /\ is_completed(state, Head(queue).path)
    /\ cur' = Head(queue)
    /\ queue' = Tail(queue)
    /\ local_path' = safe_name(basename(Head(queue).path))
    /\ calls' = NoCalls
    /\ pc' = "return_false"
    /\ outcome' = "skipped_done"
    /\ UNCHANGED <<remote, saveFailures, state, stateFile, tempFile, local,
                   ret, todo, attempt, uattempt, media_key, successful, failed,
                   error, runs, dirty, committed, atLoad, crash, processed,
                   free, proc, ftp, mux>>

\* lines 444-453: the next file of the directory is already completed
SkipCompleted ==
    /\ pc = "traverse"
    /\ queue # << >>
    /\ is_completed(state, Head(queue).path)
    /\ cur' = Head(queue)
    /\ queue' = Tail(queue)
    /\ local_path' = safe_name(basename(Head(queue).path))
    /\ calls' = NoCalls
    /\ pc' = "return_true"
    /\ outcome' = "skipped_done"
    /\ UNCHANGED <<remote, saveFailures, state, stateFile, tempFile, local,
                   ret, todo, attempt, uattempt, media_key, successful, failed,
                   error, runs, dirty, committed, atLoad, crash, processed,
                   free, proc, ftp, mux>>

\* lines 455-458: it failed before and should_retry says no
SkipExhausted ==
    /\ pc = "traverse"
    /\ queue # << >>
    /\ ~is_completed(state, Head(queue).path)
    /\ is_failed(state, Head(queue).path)
    /\ ~should_retry(state, Head(queue).path)
    /\ cur' = Head(queue)
    /\ queue' = Tail(queue)
    /\ local_path' = safe_name(basename(Head(queue).path))
    /\ calls' = NoCalls
    /\ pc' = "return_false"
    /\ outcome' = "skipped_exhausted"
    /\ UNCHANGED <<remote, saveFailures, state, stateFile, tempFile, local,
                   ret, todo, attempt, uattempt, media_key, successful, failed,
                   error, runs, dirty, committed, atLoad, crash, processed,
                   free, proc, ftp, mux>>

\* lines 460-472: state.mark_in_progress(remote_path, file_info['size'])
BeginFile ==
    /\ pc = "traverse"
    /\ queue # << >>
    /\ ~is_completed(state, Head(queue).path)
    /\ ~(is_failed(state, Head(queue).path) /\ ~should_retry(state, Head(queue).path))
    /\ cur' = Head(queue)
    /\ queue' = Tail(queue)
    /\ local_path' = safe_name(basename(Head(queue).path))
    /\ calls' = NoCalls
    /\ state' = mark_in_progress(state, Head(queue).path, Head(queue).size)
    /\ pc' = "save_open"
    /\ ret' = "disk_check"
    /\ UNCHANGED <<remote, saveFailures, stateFile, tempFile, local, todo,
                   attempt, uattempt, media_key, successful, failed, error,
                   runs, dirty, committed, atLoad, crash, processed, outcome,
                   free, proc, ftp, mux>>

\* variant: the check without the 2 GiB margin
InsufficientSpace_NoBuffer(free_space, file_info) == free_space < file_info.size

\* free_space_gb < required_space_gb, both in GiB: free < size + 2 GiB
InsufficientSpace(free_space, file_info) == free_space < file_info.size + DiskBuffer

\* lines 474-486: the disk-space check
DiskCheck ==
    /\ pc = "disk_check"
    /\ \E f \in FreeChoices :
          /\ free' = f
          /\ IF InsufficientSpace(f, cur)
             THEN pc' = "return_false" /\ attempt' = attempt
                                       /\ outcome' = "disk_insufficient"
             ELSE pc' = "download" /\ attempt' = 1 /\ outcome' = outcome
    /\ UNCHANGED <<remote, saveFailures, state, stateFile, tempFile, local,
                   ret, todo, queue, cur, local_path, uattempt, media_key,
                   successful, failed, error, runs, dirty, committed, atLoad,
                   crash, calls, processed, proc, ftp, mux>>

\* line 475: shutil.disk_usage raises OSError; nothing in process_file or the
\* traversal catches it, main() does
DiskCheckRaises ==
    /\ pc = "disk_check"
    /\ error' = "OSError"
    /\ pc' = "main_except"
    /\ UNCHANGED <<remote, saveFailures, state, stateFile, tempFile, local,
                   ret, todo, queue, cur, local_path, attempt, uattempt,
                   media_key, successful, failed, runs, dirty, committed,
                   atLoad, crash, calls, processed, outcome, free, proc, ftp, mux>>

\* The length of the whole file as the server sends it: the length the
\* listing gave, or one that differs from it by more than the tolerance of
\* line 547 (the listing of an FTP server can be stale)
ActualSizes(file_info) == {file_info.size, file_info.size - (SizeTolerance + 1)}

\* What one rclone copy leaves in temp_dir: it writes under the remote file
\* name.  Exit 0: the whole file; exit # 0: nothing new, or a longer partial file.
TransferOutcomes(file_info, rc) ==
    LET file_name == basename(file_info.path)
        had == IF file_name \in DOMAIN local THEN local[file_name] ELSE 0
    IN IF rc = 0
       THEN {Put(local, file_name, n) : n \in ActualSizes(file_info)}
       ELSE {local} \cup
            (IF had < PartialSize THEN {Put(local, file_name, PartialSize)} ELSE {})

\* lines 328-343: what stream_file_from_ftp returns
stream_result(rc, files, path) == rc = 0 /\ path \in DOMAIN files

\* variant: the wait grows with the attempt
wait_time_Growing(n) == 30 * n

\* lines 493-496: wait_time = 60 before every attempt but the first
wait_time(n) == 60

\* variant: one attempt more than max_download_attempts
MoreAttempts_OffByOne(n) == n <= max_download_attempts

\* line 492: for attempt in range(1, max_download_attempts + 1) goes on
MoreAttempts(n) == n < max_download_attempts

\* lines 492-511: one round of the download loop
Download ==
    /\ pc = "download"
    /\ \E rc \in {0, 1} : \E files \in TransferOutcomes(cur, rc) :
          /\ local' = files
          /\ IF stream_result(rc, files, local_path)
             THEN pc' = "verify_exists" /\ attempt' = attempt /\ free' = -1
             ELSE IF MoreAttempts(attempt)
                  THEN pc' = "download" /\ attempt' = attempt + 1
                       /\ free' = free
                  ELSE pc' = "download_failed" /\ attempt' = attempt
                       /\ free' = -1
    /\ calls' = [calls EXCEPT
                    !.stream = @ + 1,
                    !.slept = @ + IF attempt > 1 THEN wait_time(attempt) ELSE 0]
    /\ UNCHANGED <<remote, saveFailures, state, stateFile, tempFile, ret, todo,
                   queue, cur, local_path, uattempt, media_key, successful,
                   failed, error, runs, dirty, committed, atLoad, crash,
                   processed, outcome, proc, ftp, mux>>

\* lines 513-518: state.mark_failed(remote_path, error_msg); return False
DownloadFailed ==
    /\ pc = "download_failed"
    /\ state' = mark_failed(state, cur.path, "Failed to download after 5 attempts")
    /\ calls' = [calls EXCEPT !.mark_failed = @ + 1]
    /\ pc' = "save_open"
    /\ ret' = "return_false"
    /\ outcome' = "download_failed"
    /\ UNCHANGED <<remote, saveFailures, stateFile, tempFile, local, todo,
                   queue, cur, local_path, attempt, uattempt, media_key,
                   successful, failed, error, runs, dirty, committed, atLoad,
                   crash, processed, free, proc, ftp, mux>>

RECURSIVE Contains(_, _)
\* needle in haystack, for token sequences
Contains(haystack, needle) ==
    IF Len(haystack) < Len(needle) THEN FALSE
    ELSE IF SubSeq(haystack, 1, Len(needle)) = needle THEN TRUE
    ELSE Contains(Tail(haystack), needle)

\* [f for f in parent_files if file_name.lower() in f.name.lower()]
matching_files(files, file_name) ==
    {f \in DOMAIN files : Contains(Lower(f), Lower(file_name))}

\* lines 520-540: look for the downloaded file
VerifyExists ==
    /\ pc = "verify_exists"
    /\ LET file_name == basename(cur.path) IN
          IF local_path \in DOMAIN local
          THEN pc' = "verify_size" /\ local_path' = local_path
          ELSE IF file_name \in DOMAIN local
          THEN pc' = "verify_size" /\ local_path' = file_name
          ELSE IF matching_files(local, file_name) # {}
          THEN /\ pc' = "verify_size"
               /\ local_path' \in matching_files(local, file_name)
          ELSE pc' = "return_false" /\ local_path' = local_path
    /\ outcome' = IF pc' = "return_false" THEN "not_found" ELSE outcome
    /\ UNCHANGED <<remote, saveFailures, state, stateFile, tempFile, local,
                   ret, todo, queue, cur, attempt, uattempt, media_key,
                   successful, failed, error, runs, dirty, committed, atLoad,
                   crash, calls, processed, free, proc, ftp, mux>>

\* lines 543-552: what the size check logs
size_check(actual_size, expected_size) ==
    IF Abs(actual_size - expected_size) > SizeTolerance
    THEN "warning" ELSE "info"

\* variant: a size mismatch ends process_file
after_size_check_Strict(logged) ==
    IF logged = "warning" THEN "return_false" ELSE "upload_start"

\* lines 546-559: both branches of the size check fall through to the upload
after_size_check(logged) == "upload_start"

\* lines 542-557: local_path.stat(); a size mismatch is only logged
VerifySize ==
    /\ pc = "verify_size"
    /\ IF local_path \in DOMAIN local
       THEN /\ pc' = after_size_check(size_check(local[local_path], cur.size))
            /\ error' = error
       ELSE pc' = "main_except" /\ error' = "FileNotFoundError"
    /\ UNCHANGED <<remote, saveFailures, state, stateFile, tempFile, local,
                   ret, todo, queue, cur, local_path, attempt, uattempt,
                   media_key, successful, failed, runs, dirty, committed,
                   atLoad, crash, calls, processed, outcome, free, proc, ftp, mux>>

\* lines 559, 365-373: upload_to_google_photos starts with file_path.stat()
UploadStart ==
    /\ pc = "upload_start"
    /\ IF local_path \in DOMAIN local
       THEN pc' = "upload" /\ error' = error /\ uattempt' = 1
       ELSE pc' = "main_except" /\ error' = "FileNotFoundError"
                               /\ uattempt' = uattempt
    /\ UNCHANGED <<remote, saveFailures, state, stateFile, tempFile, local,
                   ret, todo, queue, cur, local_path, attempt, media_key,
                   successful, failed, runs, dirty, committed, atLoad, crash,
                   calls, processed, outcome, free, proc, ftp, mux>>

\* variant: the wait also follows the last attempt
retry_wait_Always(n, retries) == RETRY_DELAY

\* lines 414-416, 426-428: a failed attempt is followed by
\* time.sleep(RETRY_DELAY) unless it was the last one
retry_wait(n, retries) == IF n < retries THEN RETRY_DELAY ELSE 0

\* lines 373-435: one upload attempt.  answer is a media key, or None for a
\* result without the file or an exception of the client; line 401 reads
\* the file size again inside the try block
Upload ==
    /\ pc = "upload"
    /\ \E answer \in MediaKeys \cup {None} :
          /\ IF answer # None /\ local_path \in DOMAIN local
             THEN /\ media_key' = answer
                  /\ pc' = "uploaded"
                  /\ uattempt' = uattempt
             ELSE /\ media_key' = None
                  /\ IF uattempt < MAX_RETRIES
                     THEN pc' = "upload" /\ uattempt' = uattempt + 1
                     ELSE pc' = "upload_failed" /\ uattempt' = uattempt
          /\ calls' = [calls EXCEPT
                          !.upload = @ + 1,
                          !.answer = answer,
                          !.waited = @ + IF pc' = "uploaded" THEN 0
                                         ELSE retry_wait(uattempt, MAX_RETRIES)]
    /\ UNCHANGED <<remote, saveFailures, state, stateFile, tempFile, local,
                   ret, todo, queue, cur, local_path, attempt, successful,
                   failed, error, runs, dirty, committed, atLoad, crash,
                   processed, outcome, free, proc, ftp, mux>>

\* An upload-success branch that deletes the local file without waiting for
\* the state to be written
Uploaded_DeleteBeforeSave ==
    /\ pc = "uploaded"
    /\ state' = mark_completed(state, cur.path, cur.size, media_key)
    /\ pc' = "unlink"
    /\ outcome' = "completed"
    /\ UNCHANGED <<remote, saveFailures, stateFile, tempFile, local, ret, todo,
                   queue, cur, local_path, attempt, uattempt, media_key,
                   successful, failed, error, runs, dirty, committed, atLoad,
                   crash, calls, processed, free, proc, ftp, mux>>

\* lines 561-571: state.mark_completed(remote_path, file_info['size'], media_key)
Uploaded ==
    /\ pc = "uploaded"
    /\ state' = mark_completed(state, cur.path, cur.size, media_key)
    /\ pc' = "save_open"
    /\ ret' = "unlink"
    /\ outcome' = "completed"
    /\ UNCHANGED <<remote, saveFailures, stateFile, tempFile, local, todo,
                   queue, cur, local_path, attempt, uattempt, media_key,
                   successful, failed, error, runs, dirty, committed, atLoad,
                   crash, calls, processed, free, proc, ftp, mux>>

\* lines 573-579: local_path.unlink() inside try/except: when it raises the
\* failure is only logged and the file stays where it is
Unlink ==
    /\ pc = "unlink"
    /\ \E raises \in BOOLEAN :
          local' = IF local_path \in DOMAIN local /\ ~raises
                   THEN Remove(local, local_path)
                   ELSE local
    /\ pc' = "return_true"
    /\ UNCHANGED <<remote, saveFailures, state, stateFile, tempFile, ret, todo,
                   queue, cur, local_path, attempt, uattempt, media_key,
                   successful, failed, error, runs, dirty, committed, atLoad,
                   crash, calls, processed, outcome, free, proc, ftp, mux>>

\* variant: a failed upload is recorded as completed
UploadFailed_Completes ==
    /\ pc = "upload_failed"
    /\ state' = mark_completed(state, cur.path, cur.size, media_key)
    /\ calls' = [calls EXCEPT !.mark_failed = @ + 1]
    /\ pc' = "save_open"
    /\ ret' = "return_false"
    /\ outcome' = "upload_failed"
    /\ UNCHANGED <<remote, saveFailures, stateFile, tempFile, local, todo,
                   queue, cur, local_path, attempt, uattempt, media_key,
                   successful, failed, error, runs, dirty, committed, atLoad,
                   crash, processed, free, proc, ftp, mux>>

\* lines 580-590: state.mark_failed(remote_path, error_msg); return False
UploadFailed ==
    /\ pc = "upload_failed"
    /\ state' = mark_failed(state, cur.path, "Upload failed after all retries")
    /\ calls' = [calls EXCEPT !.mark_failed = @ + 1]
    /\ pc' = "save_open"
    /\ ret' = "return_false"
    /\ outcome' = "upload_failed"
    /\ UNCHANGED <<remote, saveFailures, stateFile, tempFile, local, todo,
                   queue, cur, local_path, attempt, uattempt, media_key,
                   successful, failed, error, runs, dirty, committed, atLoad,
                   crash, processed, free, proc, ftp, mux>>

\* lines 192-193: process_file returned True
ReturnTrue ==
    /\ pc = "return_true"
    /\ successful' = successful + 1
    /\ processed' = processed \cup {cur.path}
    /\ pc' = "traverse"
    /\ outcome' = ""
    /\ free' = -1
    /\ calls' = NoCalls
    /\ UNCHANGED <<remote, saveFailures, state, stateFile, tempFile, local,
                   ret, todo, queue, cur, local_path, attempt, uattempt,
                   media_key, failed, error, runs, dirty, committed, atLoad,
                   crash, proc, ftp, mux>>

\* lines 194-195: process_file returned False
ReturnFalse ==
    /\ pc = "return_false"
    /\ failed' = failed + 1
    /\ processed' = processed \cup {cur.path}
    /\ pc' = "traverse"
    /\ outcome' = ""
    /\ free' = -1
    /\ calls' = NoCalls
    /\ UNCHANGED <<remote, saveFailures, state, stateFile, tempFile, local,
                   ret, todo, queue, cur, local_path, attempt, uattempt,
                   media_key, successful, error, runs, dirty, committed,
                   atLoad, crash, proc, ftp, mux>>

----------------------------------------------------------------------------
(* What happens to the process from outside *)

\* The process dies (kill, power loss, runner timeout): its memory is gone,
\* the files stay as they are.
Crash ==
    /\ pc # "stopped"
    /\ crash' = [happened |-> TRUE, slot |-> state.in_progress,
                 insave |-> pc \in SavePcs, dirty |-> dirty,
                 committed |-> committed]
    /\ pc' = "stopped"
    /\ state' = _create_new_state
    /\ atLoad' = _create_new_state
    /\ committed' = Records(_create_new_state)
    /\ dirty' = FALSE
    /\ ret' = "stopped"
    /\ todo' = << >>
    /\ queue' = << >>
    /\ cur' = NoFile
    /\ local_path' = << >>
    /\ attempt' = 0
    /\ uattempt' = 0
    /\ media_key' = None
    /\ successful' = 0
    /\ failed' = 0
    /\ error' = ""
    /\ calls' = NoCalls
    /\ processed' = {}
    /\ saveFailures' = 0
    /\ outcome' = ""
    /\ free' = -1
    /\ UNCHANGED <<remote, stateFile, tempFile, local, runs, proc, ftp, mux>>

\* Something else removes the downloaded file from temp_dir between the end
\* of the transfer and the end of the upload
ExternalRemove ==
    /\ pc \in {"verify_exists", "verify_size", "upload_start", "upload"}
    /\ \E f \in DOMAIN local \cap {local_path, basename(cur.path)} :
          local' = Remove(local, f)
    /\ UNCHANGED <<remote, saveFailures, state, stateFile, tempFile, pc, ret,
                   todo, queue, cur, local_path, attempt, uattempt, media_key,
                   successful, failed, error, runs, dirty, committed, atLoad,
                   crash, calls, processed, outcome, free, proc, ftp, mux>>

----------------------------------------------------------------------------

Next ==
    \/ LoadState \/ MakeTempDir \/ Finish \/ MainExcept
    \/ TraverseDir
    \/ SkipCompleted \/ SkipExhausted \/ BeginFile
    \/ DiskCheck \/ DiskCheckRaises
    \/ Download \/ DownloadFailed
    \/ VerifyExists \/ VerifySize \/ UploadStart \/ Upload \/ Uploaded
    \/ Unlink \/ UploadFailed \/ ReturnTrue \/ ReturnFalse
    \/ SaveOpenTemp \/ SaveDump \/ SaveReplace \/ SaveFails
    \/ Crash \/ ExternalRemove

Spec == Init /\ [][Next]_vars

----------------------------------------------------------------------------
(* A StateManager object used on its own: constructed over the state file   *)
(* found, then given any sequence of mark_* calls.  cur and media_key hold  *)
(* the arguments of the last call made, outcome its name (for mark_failed:  *)
(* the reason given), atLoad the state the constructor loaded.              *)

SMPaths == {NameA, NameB}

SMSizes == {2 * GB, 3 * GB}

SMReasons ==
    {"Failed to download after 5 attempts", "Upload failed after all retries"}

\* A state file in the v1.0 format: completed is a list of paths
V1State ==
    [version     |-> "1.0",
     completed   |-> <<NameT, NameA>>,
     failed      |-> EmptyMap,
     in_progress |-> NoneSlot,
     skipped     |-> << >>,
     stats       |-> [total_uploaded |-> 2, total_failed |-> 0, total_bytes |-> 0]]

\* No object yet; the state file is absent, not a JSON document, of the
\* v1.0 format, or a v2.0 document
SMInit ==
    /\ remote = "plain"
    /\ stateFile \in {Absent, Partial, Document(V1State), Document(EarlierRuns)}
    /\ state = _create_new_state
    /\ tempFile = Absent
    /\ local = EmptyMap
    /\ pc = "sm_new"
    /\ ret = "sm_new"
    /\ todo = << >>
    /\ queue = << >>
    /\ cur = NoFile
    /\ local_path = << >>
    /\ attempt = 0
    /\ uattempt = 0
    /\ media_key = None
    /\ successful = 0
    /\ failed = 0
    /\ error = ""
    /\ runs = 0
    /\ saveFailures = 0
    /\ dirty = FALSE
    /\ committed = Records(_create_new_state)
    /\ atLoad = _create_new_state
    /\ crash = NoCrash
    /\ calls = NoCalls
    /\ processed = {}
    /\ outcome = ""
    /\ free = -1
    /\ proc = NoProcess
    /\ ftp = NoSession
    /\ mux = NoRemux

\* variant: the constructor writes what it loaded back to the state file
SMLoad_Rewrites ==
    /\ pc = "sm_new"
    /\ state' = _load_state(stateFile)
    /\ atLoad' = _load_state(stateFile)
    /\ committed' = Records(_load_state(stateFile))
    /\ pc' = "sm_idle"
    /\ stateFile' = Document(_load_state(stateFile))
    /\ UNCHANGED <<remote, tempFile, local, ret, todo, queue, cur,
                   local_path, attempt, uattempt, media_key, successful,
                   failed, error, runs, saveFailures, dirty, crash, calls,
                   processed, outcome, free, proc, ftp, mux>>

\* lines 15-17: StateManager(): self.state = self._load_state()
SMLoad ==
    /\ pc = "sm_new"
    /\ state' = _load_state(stateFile)
    /\ atLoad' = _load_state(stateFile)
    /\ committed' = Records(_load_state(stateFile))
    /\ pc' = "sm_idle"
    /\ UNCHANGED <<remote, stateFile, tempFile, local, ret, todo, queue, cur,
                   local_path, attempt, uattempt, media_key, successful,
                   failed, error, runs, saveFailures, dirty, crash, calls,
                   processed, outcome, free, proc, ftp, mux>>

\* state.mark_in_progress(file_path, size_bytes), up to its _save_state
SMmark_in_progress ==
    /\ pc = "sm_idle"
    /\ calls.marks < MaxMarks
    /\ \E file_path \in SMPaths, size_bytes \in SMSizes :
          /\ state' = mark_in_progress(state, file_path, size_bytes)
          /\ cur' = [path |-> file_path, size |-> size_bytes]
          /\ media_key' = None
          /\ outcome' = "mark_in_progress"
    /\ calls' = [calls EXCEPT !.marks = @ + 1]
    /\ pc' = "save_open"
    /\ ret' = "sm_idle"
    /\ UNCHANGED <<remote, stateFile, tempFile, local, todo, queue, local_path,
                   attempt, uattempt, successful, failed, error, runs,
                   saveFailures, dirty, committed, atLoad, crash, processed,
                   free, proc, ftp, mux>>

\* state.mark_completed(file_path, size_bytes, key), up to its _save_state
SMmark_completed ==
    /\ pc = "sm_idle"
    /\ calls.marks < MaxMarks
    /\ \E file_path \in SMPaths, size_bytes \in SMSizes, key \in MediaKeys :
          /\ state' = mark_completed(state, file_path, size_bytes, key)
          /\ cur' = [path |-> file_path, size |-> size_bytes]
          /\ media_key' = key
          /\ outcome' = "mark_completed"
    /\ calls' = [calls EXCEPT !.marks = @ + 1]
    /\ pc' = "save_open"
    /\ ret' = "sm_idle"
    /\ UNCHANGED <<remote, stateFile, tempFile, local, todo, queue, local_path,
                   attempt, uattempt, successful, failed, error, runs,
                   saveFailures, dirty, committed, atLoad, crash, processed,
                   free, proc, ftp, mux>>

\* state.mark_failed(file_path, reason), up to its _save_state
SMmark_failed ==
    /\ pc = "sm_idle"
    /\ calls.marks < MaxMarks
    /\ \E file_path \in SMPaths, reason \in SMReasons :
          /\ state' = mark_failed(state, file_path, reason)
          /\ cur' = [path |-> file_path, size |-> 0]
          /\ media_key' = None
          /\ outcome' = reason
    /\ calls' = [calls EXCEPT !.marks = @ + 1]
    /\ pc' = "save_open"
    /\ ret' = "sm_idle"
    /\ UNCHANGED <<remote, stateFile, tempFile, local, todo, queue, local_path,
                   attempt, uattempt, successful, failed, error, runs,
                   saveFailures, dirty, committed, atLoad, crash, processed,
                   free, proc, ftp, mux>>

\* state.mark_skipped(file_path, reason), up to its _save_state
SMmark_skipped ==
    /\ pc = "sm_idle"
    /\ calls.marks < MaxMarks
    /\ \E file_path \in SMPaths :
          /\ state' = mark_skipped(state, file_path, "too large")
          /\ cur' = [path |-> file_path, size |-> 0]
          /\ media_key' = None
          /\ outcome' = "mark_skipped"
    /\ calls' = [calls EXCEPT !.marks = @ + 1]
    /\ pc' = "save_open"
    /\ ret' = "sm_idle"
    /\ UNCHANGED <<remote, stateFile, tempFile, local, todo, queue, local_path,
                   attempt, uattempt, successful, failed, error, runs,
                   saveFailures, dirty, committed, atLoad, crash, processed,
                   free, proc, ftp, mux>>

SMNext ==
    \/ SMLoad
    \/ SMmark_in_progress
    \/ SMmark_completed
    \/ SMmark_failed
    \/ SMmark_skipped
    \/ SaveOpenTemp
    \/ SaveDump
    \/ SaveReplace
    \/ SaveFails

SpecSM == SMInit /\ [][SMNext]_vars

----------------------------------------------------------------------------
(* One stream_file_from_ftp call followed line by line: the rclone child,   *)
(* the lines it prints, the stall detection, and the return value           *)

MAX_STALL_TIME == 300

KiB == 1024

\* time between two lines read, in seconds
Delays == {100, 150, 301}

\* 10 MB, in KiB, rounded up: an increase of more than 10 MB is at least this
TenMB == (10 * 1000 * 1000) \div KiB + 1

\* bytes one sample is ahead of the sample before it, in KiB: none, 6 MiB,
\* just over 10 MB, just over 0.01 GiB, a quarter of a GiB
Increases == {0, 6 * KiB, TenMB, 10486, 256 * KiB}

\* rclone prints the amount in GiB with three decimals
Shown(kib) == (kib * 1000 + 512 * KiB) \div (KiB * KiB)

\* variant: the threshold ten times too large
NoProgress_TenFold(current_gb, last_gb) == Abs(current_gb - last_gb) < 100

\* variant: half the threshold
NoProgress_Half(current_gb, last_gb) == Abs(current_gb - last_gb) < 5

\* line 295: abs(current_gb - last_transferred_gb) < 0.01.  For a difference
\* of exactly 0.010 the float comparison goes either way depending on the two
\* values (0.03 - 0.02 < 0.01 but 1.243 - 1.233 > 0.01); the model takes it
\* from the parity of their sum, so that both outcomes occur.
NoProgress(current_gb, last_gb) ==
    \/ Abs(current_gb - last_gb) < 10
    \/ Abs(current_gb - last_gb) = 10 /\ ((current_gb + last_gb) \div 10) % 2 = 0

\* line 301
Stuck(stall_duration) == stall_duration > MAX_STALL_TIME

\* The file process_file wants: a.mkv of 2 GiB, nothing of it on disk
StreamInit ==
    /\ remote = "plain"
    /\ stateFile = Absent
    /\ state = _create_new_state
    /\ tempFile = Absent
    /\ local = EmptyMap
    /\ pc = "stream_call"
    /\ ret = "stopped"
    /\ todo = << >>
    /\ queue = << >>
    /\ cur = [path |-> NameA, size |-> 2 * GB]
    /\ local_path = safe_name(basename(NameA))
    /\ attempt = 1
    /\ uattempt = 0
    /\ media_key = None
    /\ successful = 0
    /\ failed = 0
    /\ error = ""
    /\ runs = 0
    /\ saveFailures = 0
    /\ dirty = FALSE
    /\ committed = Records(_create_new_state)
    /\ atLoad = _create_new_state
    /\ crash = NoCrash
    /\ calls = NoCalls
    /\ processed = {}
    /\ outcome = ""
    /\ free = -1
    /\ proc = NoProcess
    /\ ftp = NoSession
    /\ mux = NoRemux

StreamFrame ==
    UNCHANGED <<remote, state, stateFile, tempFile, ret, todo, queue, cur,
                local_path, attempt, uattempt, media_key, successful, failed,
                error, runs, saveFailures, dirty, committed, atLoad, crash,
                calls, processed, outcome, free, ftp, mux>>

\* lines 265-278: subprocess.Popen(cmd, ...)
Popen ==
    /\ pc = "stream_call"
    /\ proc' = [NoProcess EXCEPT !.child = "running"]
    /\ pc' = "stream_read"
    /\ UNCHANGED local
    /\ StreamFrame

\* lines 350-357: Popen raises (no rclone): except Exception, return False
PopenRaises ==
    /\ pc = "stream_call"
    /\ proc' = [NoProcess EXCEPT !.result = FALSE]
    /\ pc' = "stream_done"
    /\ UNCHANGED local
    /\ StreamFrame

\* The child ends on its own, with exit status rc; it leaves no file, an
\* empty file or the whole file, and perhaps a last line in the pipe
ChildExits ==
    /\ pc = "stream_read"
    /\ proc.child = "running"
    /\ \E rc \in {0, 1}, unread \in {0, 1} :
          proc' = [proc EXCEPT !.child = "exited", !.returncode = rc,
                               !.pipe = unread]
    /\ \E size \in {-1, 0, cur.size} :
          local' = IF size = -1 THEN local
                   ELSE Put(local, basename(cur.path), size)
    /\ UNCHANGED pc
    /\ StreamFrame

\* The child stays alive and writes nothing more (rclone runs with
\* --timeout 0): the pipe stays open and empty
ChildHangs ==
    /\ pc = "stream_read"
    /\ proc.child = "running"
    /\ proc' = [proc EXCEPT !.child = "hung"]
    /\ UNCHANGED <<pc, local>>
    /\ StreamFrame

\* for line in process.stdout: a line can be read while the child runs, or
\* is left in the pipe
LineToRead == proc.child = "running" \/ proc.pipe > 0

AfterLine(p) ==
    [p EXCEPT !.pipe = IF p.child = "running" THEN 0 ELSE p.pipe - 1]

\* lines 281-322 for a line that is no progress sample: no 'Transferred:' or
\* no 'GiB' in it, or float() raises on it (debug message only)
ReadOtherLine ==
    /\ pc = "stream_read"
    /\ LineToRead
    /\ \E dt \in Delays :
          /\ proc.now + dt <= MaxTime
          /\ proc' = [AfterLine(proc) EXCEPT !.now = proc.now + dt]
    /\ UNCHANGED <<pc, local>>
    /\ StreamFrame

\* process.kill(): SIGKILL to a running child; nothing if it has exited
Kill(p) ==
    IF p.child = "running"
    THEN [p EXCEPT !.child = "killed", !.returncode = -9, !.kill_called = TRUE]
    ELSE [p EXCEPT !.kill_called = TRUE]

\* lines 281-315 for a line 'Transferred: x GiB / y GiB': the stall detection
ReadSample ==
    /\ pc = "stream_read"
    /\ LineToRead
    /\ \E dt \in Delays, inc \in Increases :
        LET current_time == proc.now + dt
            bytes == proc.transferred + inc
            current_gb == Shown(bytes)
            seen == [AfterLine(proc) EXCEPT
                        !.now = current_time,
                        !.transferred = bytes,
                        !.sample_time = current_time,
                        !.still_since = IF inc > 0 THEN -1
                                        ELSE IF @ = -1 THEN current_time
                                        ELSE @,
                        !.all_big = @ /\ inc >= TenMB]
        IN
        /\ current_time <= MaxTime
        /\ bytes <= cur.size * KiB
        /\ IF NoProgress(current_gb, proc.last_transferred_gb)
           THEN IF proc.stall_start_time = -1
                THEN /\ proc' = [seen EXCEPT !.stall_start_time = current_time]
                     /\ pc' = "stream_read"
                ELSE IF Stuck(current_time - proc.stall_start_time)
                     THEN /\ proc' = Kill(seen)
                          /\ pc' = "stream_wait"
                     ELSE /\ proc' = seen
                          /\ pc' = "stream_read"
           ELSE /\ proc' = [seen EXCEPT !.stall_start_time = -1,
                                         !.last_transferred_gb = current_gb]
                /\ pc' = "stream_read"
    /\ UNCHANGED local
    /\ StreamFrame

\* the loop ends when the child is gone and the pipe is empty; while a
\* silent child lives the read blocks
EndOfOutput ==
    /\ pc = "stream_read"
    /\ ~LineToRead
    /\ proc.child # "hung"
    /\ pc' = "stream_wait"
    /\ UNCHANGED <<proc, local>>
    /\ StreamFrame

\* lines 324-343: process.wait(); the return value
StreamReturn ==
    /\ pc = "stream_wait"
    /\ proc' = [proc EXCEPT
                  !.result = stream_result(proc.returncode, local, local_path)]
    /\ pc' = "stream_done"
    /\ UNCHANGED local
    /\ StreamFrame

StreamNext ==
    \/ Popen
    \/ PopenRaises
    \/ ChildExits
    \/ ChildHangs
    \/ ReadOtherLine
    \/ ReadSample
    \/ EndOfOutput
    \/ StreamReturn

SpecStream == StreamInit /\ [][StreamNext]_vars

\* The steps stream_file_from_ftp takes on its own, whatever the child does:
\* it starts the child, leaves the loop at end of output, waits and returns.
\* Reading a line takes a child that writes one.
StreamFairness ==
    /\ WF_vars(Popen \/ PopenRaises)
    /\ WF_vars(EndOfOutput)
    /\ WF_vars(StreamReturn)

SpecStreamLive == SpecStream /\ StreamFairness

----------------------------------------------------------------------------
(* One FTPDownloader.download_file call over a connected FTP session.  The   *)
(* remote file is the blocks 1..remote_size, the local file a sequence of    *)
(* blocks; wire lists the commands sent on the control connection.           *)

\* the remote file, cut into blocks
Blocks(n) == [i \in 1..n |-> i]

\* The ways a server may treat a REST that is not the last command before the
\* transfer command (RFC 3659, 5.3: the effect is undefined): it keeps the
\* restart value for the next transfer, silently ignores it, or answers the
\* following command with an error
RestReactions == {"saved", "ignored", "error"}

\* Replies to REST: 350 and 2xx are accepted (lines 116-119), a 1xx reply is
\* "unexpected" (120-122), on 4xx and 5xx getresp raises (123-125)
RestReplies == {"350", "200", "125", "550"}

FtpInit ==
    /\ remote = "plain"
    /\ stateFile = Absent
    /\ state = _create_new_state
    /\ tempFile = Absent
    /\ local = EmptyMap
    /\ pc = "ftp_call"
    /\ ret = "stopped"
    /\ todo = << >>
    /\ queue = << >>
    /\ cur = NoFile
    /\ local_path = NameA
    /\ attempt = 0
    /\ uattempt = 0
    /\ media_key = None
    /\ successful = 0
    /\ failed = 0
    /\ error = ""
    /\ runs = 0
    /\ saveFailures = 0
    /\ dirty = FALSE
    /\ committed = Records(_create_new_state)
    /\ atLoad = _create_new_state
    /\ crash = NoCrash
    /\ calls = NoCalls
    /\ processed = {}
    /\ outcome = ""
    /\ free = -1
    /\ proc = NoProcess
    /\ mux = NoRemux
    /\ \E n \in 1..MaxBlocks, exists \in BOOLEAN, had \in 0..MaxBlocks + 1 :
          /\ had <= n + 1   \* n + 1: left from a longer version of the file
          /\ exists \/ had = 0
          /\ ftp = [remote_size |-> n,        \* length of the remote file
                    exists      |-> exists,   \* local_path.exists()
                    file        |-> Blocks(had),
                    had         |-> had,      \* its length when called
                    size        |-> -1,       \* what get_file_size returned (-1: None)
                    resume_pos  |-> 0,
                    mode        |-> "",
                    wire        |-> << >>,
                    rest_arg    |-> -1,       \* argument of the REST sent
                    marker      |-> 0,        \* restart value the server holds
                    served_from |-> -1,       \* offset the server sent from
                    result      |-> "none"]   \* "True" / "False" once returned

FtpFrame ==
    UNCHANGED <<remote, state, stateFile, tempFile, local, ret, todo, queue,
                cur, local_path, attempt, uattempt, media_key, successful,
                failed, error, runs, saveFailures, dirty, committed, atLoad,
                crash, calls, processed, outcome, free, proc, mux>>

FtpReturn(f, value) == [f EXCEPT !.result = value]

\* lines 67-75, 85-89: get_file_size sends TYPE I and SIZE; None on any error
get_file_size ==
    /\ pc = "ftp_call"
    /\ \E answer \in {ftp.remote_size, -1} :
          LET f == [ftp EXCEPT !.wire = @ \o <<"TYPE I", "SIZE">>,
                               !.size = answer]
          IN IF answer = -1
             THEN ftp' = FtpReturn(f, "False") /\ pc' = "ftp_done"
             ELSE ftp' = f /\ pc' = "ftp_partial"
    /\ FtpFrame

\* lines 93-104: resume_pos and the open mode
CheckPartial ==
    /\ pc = "ftp_partial"
    /\ LET resume_pos == IF ftp.exists THEN Len(ftp.file) ELSE 0
       IN IF ftp.exists /\ resume_pos = ftp.size
          THEN /\ ftp' = FtpReturn([ftp EXCEPT !.resume_pos = resume_pos],
                                   "True")
               /\ pc' = "ftp_done"
          ELSE /\ ftp' = [ftp EXCEPT
                              !.resume_pos = resume_pos,
                              !.mode = IF resume_pos > 0 THEN "ab" ELSE "wb"]
               /\ pc' = "ftp_open"
    /\ FtpFrame

\* line 107: open(local_path, mode): 'wb' creates or truncates the file,
\* 'ab' keeps what it holds
OpenLocal ==
    /\ pc = "ftp_open"
    /\ ftp' = [ftp EXCEPT !.exists = TRUE,
                          !.file = IF ftp.mode = "wb" THEN << >> ELSE @]
    /\ pc' = IF ftp.resume_pos > 0 THEN "ftp_rest" ELSE "ftp_retr"
    /\ FtpFrame

\* lines 110-125: putcmd('REST resume_pos'); getresp()
SendRest ==
    /\ pc = "ftp_rest"
    /\ \E reply \in RestReplies :
          LET f == [ftp EXCEPT !.wire = Append(@, "REST"),
                               !.rest_arg = ftp.resume_pos]
          IN IF reply \in {"350", "200"}
             THEN /\ ftp' = [f EXCEPT !.marker = ftp.resume_pos]
                  /\ pc' = "ftp_retr"
             ELSE /\ ftp' = FtpReturn(f, "False")
                  /\ pc' = "ftp_done"
    /\ FtpFrame

\* lines 148-151, ftplib.FTP.retrbinary(cmd, callback): voidcmd('TYPE I'),
\* then transfercmd(cmd) which sends PASV and then RETR (no rest argument is
\* passed, so ftplib sends no REST of its own); the callback appends every
\* block received to the file.  The transfer may break off after any block:
\* the exception is caught at lines 166-171.
Retrbinary ==
    /\ pc = "ftp_retr"
    /\ \E reaction \in (IF ftp.marker > 0 THEN RestReactions ELSE {"saved"}) :
          IF reaction = "error"
          THEN /\ ftp' = FtpReturn([ftp EXCEPT !.wire = Append(@, "TYPE I"),
                                               !.marker = 0], "False")
               /\ pc' = "ftp_done"
          ELSE LET from == IF reaction = "saved" THEN ftp.marker ELSE 0
               IN \E upto \in from..(IF from > ftp.remote_size THEN from
                                      ELSE ftp.remote_size) :
                     LET f == [ftp EXCEPT
                                 !.wire = @ \o <<"TYPE I", "PASV", "RETR">>,
                                 !.marker = 0,
                                 !.served_from = from,
                                 !.file = @ \o SubSeq(Blocks(ftp.remote_size),
                                                      from + 1, upto)]
                     IN IF upto < ftp.remote_size
                        THEN ftp' = FtpReturn(f, "False") /\ pc' = "ftp_done"
                        ELSE ftp' = f /\ pc' = "ftp_verify"
    /\ FtpFrame

\* variant: no comparison of sizes after the transfer
VerifyDownload_NoCheck ==
    /\ pc = "ftp_verify"
    /\ ftp' = FtpReturn(ftp, "True")
    /\ pc' = "ftp_done"
    /\ FtpFrame

\* lines 153-164: final_size == remote_size
VerifyDownload ==
    /\ pc = "ftp_verify"
    /\ ftp' = FtpReturn(ftp, IF Len(ftp.file) = ftp.size
                             THEN "True" ELSE "False")
    /\ pc' = "ftp_done"
    /\ FtpFrame

FtpNext ==
    \/ get_file_size \/ CheckPartial \/ OpenLocal \/ SendRest
    \/ Retrbinary \/ VerifyDownload

SpecFtp == FtpInit /\ [][FtpNext]_vars

----------------------------------------------------------------------------
(* traverse_and_process_depth_first over the "deep" tree, with each          *)
(* process_file call taken as one step that returns True or False or raises. *)
(* processed holds the paths handed to process_file so far, cur the last.    *)

TraverseInit ==
    /\ remote = "deep"
    /\ stateFile = Absent
    /\ state = _create_new_state
    /\ tempFile = Absent
    /\ local = EmptyMap
    /\ pc = "traverse"
    /\ ret = "stopped"
    /\ todo = << << >> >>
    /\ queue = << >>
    /\ cur = NoFile
    /\ local_path = << >>
    /\ attempt = 0
    /\ uattempt = 0
    /\ media_key = None
    /\ successful = 0
    /\ failed = 0
    /\ error = ""
    /\ runs = 1
    /\ saveFailures = 0
    /\ dirty = FALSE
    /\ committed = Records(_create_new_state)
    /\ atLoad = _create_new_state
    /\ crash = NoCrash
    /\ calls = NoCalls
    /\ processed = {}
    /\ outcome = ""
    /\ free = -1
    /\ proc = NoProcess
    /\ ftp = NoSession
    /\ mux = NoRemux

TraverseFrame ==
    UNCHANGED <<remote, saveFailures, state, stateFile, tempFile, local, ret,
                local_path, attempt, uattempt, media_key, error, runs, dirty,
                committed, atLoad, crash, calls, outcome, free, proc, ftp, mux>>

\* lines 187, 196: the next directory in depth-first order is listed.  Each
\* of the two listings comes back empty when rclone fails (lines 99-103,
\* 130-133, 167-169).
ListDirectory ==
    /\ pc = "traverse"
    /\ queue = << >>
    /\ todo # << >>
    /\ queue' \in {list_files_in_directory(Head(todo)), << >>}
    /\ \E subdirs \in {SubPaths(Head(todo)), << >>} :
          todo' = subdirs \o Tail(todo)
    /\ UNCHANGED <<pc, cur, successful, failed, processed>>
    /\ TraverseFrame

\* lines 190-194: process_file(remote, file_info, ...) for the next file
ProcessFileCall ==
    /\ pc = "traverse"
    /\ queue # << >>
    /\ cur' = Head(queue)
    /\ queue' = Tail(queue)
    /\ processed' = processed \cup {Head(queue).path}
    /\ \E result \in {"True", "False", "raises"} :
          /\ successful' = IF result = "True" THEN successful + 1
                           ELSE successful
          /\ failed' = IF result = "False" THEN failed + 1 ELSE failed
          /\ pc' = IF result = "raises" THEN "stopped" ELSE "traverse"
    /\ UNCHANGED todo
    /\ TraverseFrame

\* line 216: the outermost call returns (successful, failed)
TraverseReturns ==
    /\ pc = "traverse"
    /\ queue = << >>
    /\ todo = << >>
    /\ pc' = "stopped"
    /\ UNCHANGED <<todo, queue, cur, successful, failed, processed>>
    /\ TraverseFrame

TraverseNext == ListDirectory \/ ProcessFileCall \/ TraverseReturns

SpecTraverse == TraverseInit /\ [][TraverseNext]_vars

----------------------------------------------------------------------------
(* One remux_to_mkv call (iso_converter.py): the ffmpeg child, its stdout    *)
(* and stderr pipes, the two reader threads and the monitoring loop of the   *)
(* calling thread.  A line is "progress" (it carries one of the markers the  *)
(* loop looks for), "other" or "blank".  Sizes are percent of the size of    *)
(* the input file; -1 stands for a file that does not exist.                 *)

Streams == {"stdout", "stderr"}

LineKinds == {"progress", "other", "blank"}

\* sizes the output file goes through while ffmpeg writes it
OutputSizes == {-1, 0, 94, 95}

\* seconds that pass between two rounds of the monitoring loop
RoundTimes == {301}

input_size == 100

RemuxInit ==
    /\ remote = "plain"
    /\ stateFile = Absent
    /\ state = _create_new_state
    /\ tempFile = Absent
    /\ local = EmptyMap
    /\ pc = "remux_call"
    /\ ret = "stopped"
    /\ todo = << >>
    /\ queue = << >>
    /\ cur = NoFile
    /\ local_path = << >>
    /\ attempt = 0
    /\ uattempt = 0
    /\ media_key = None
    /\ successful = 0
    /\ failed = 0
    /\ error = ""
    /\ runs = 0
    /\ saveFailures = 0
    /\ dirty = FALSE
    /\ committed = Records(_create_new_state)
    /\ atLoad = _create_new_state
    /\ crash = NoCrash
    /\ calls = NoCalls
    /\ processed = {}
    /\ outcome = ""
    /\ free = -1
    /\ proc = NoProcess
    /\ ftp = NoSession
    /\ \E held \in [Streams -> BOOLEAN] :
          mux = [process    |-> "none",      \* "running", "exited"
                 returncode |-> -1,          \* -1: None
                 to_write   |-> MaxLines,    \* lines ffmpeg may still write
                 pipe       |-> [s \in Streams |-> << >>],
                 \* the write end of the pipe stays open after ffmpeg is
                 \* gone, so that the reader never sees the end of the file
                 held       |-> held,
                 \* stdout_thread, stderr_thread
                 thread     |-> [s \in Streams |-> "unstarted"],
                 \* output_queue, error_queue
                 queue      |-> [s \in Streams |-> << >>],
                 output_size    |-> -1,
                 last_file_size |-> 0,
                 since_output   |-> 0,       \* time.time() - last_output_time
                 result     |-> ""]

RemuxFrame ==
    UNCHANGED <<remote, state, stateFile, tempFile, local, ret, todo, queue,
                cur, local_path, attempt, uattempt, media_key, successful,
                failed, error, runs, saveFailures, dirty, committed, atLoad,
                crash, calls, processed, outcome, free, proc, ftp>>

\* lines 141-177: Popen, the two queues, the two daemon threads; a missing
\* ffmpeg raises FileNotFoundError (350-352)
RemuxPopen ==
    /\ pc = "remux_call"
    /\ \E found \in BOOLEAN :
          IF found
          THEN /\ mux' = [mux EXCEPT !.process = "running",
                                     !.thread = [s \in Streams |-> "reading"]]
               /\ pc' = "remux_poll"
          ELSE /\ mux' = [mux EXCEPT !.result = "False"]
               /\ pc' = "remux_done"
    /\ RemuxFrame

\* ffmpeg writes a line to one of its pipes
FfmpegWrites ==
    /\ mux.process = "running"
    /\ mux.to_write > 0
    /\ \E s \in Streams, line \in LineKinds :
          mux' = [mux EXCEPT !.to_write = @ - 1,
                             !.pipe[s] = Append(@, line)]
    /\ UNCHANGED pc
    /\ RemuxFrame

\* ffmpeg creates or extends the output file
FfmpegGrows ==
    /\ mux.process = "running"
    /\ \E n \in OutputSizes :
          /\ n > mux.output_size
          /\ mux' = [mux EXCEPT !.output_size = n]
    /\ UNCHANGED pc
    /\ RemuxFrame

\* ffmpeg ends by itself
FfmpegExits ==
    /\ mux.process = "running"
    /\ \E rc \in {0, 1} :
          mux' = [mux EXCEPT !.process = "exited", !.returncode = rc]
    /\ UNCHANGED pc
    /\ RemuxFrame

\* lines 163-171: for line in process.stdout: if line.strip(): queue.put(...).
\* The loop ends at the end of the file: the pipe is empty and every write
\* end of it is closed.
read_stream(s) ==
    /\ mux.thread[s] = "reading"
    /\ IF mux.pipe[s] # << >>
       THEN mux' = [mux EXCEPT
                       !.pipe[s] = Tail(@),
                       !.queue[s] = IF Head(mux.pipe[s]) = "blank"
                                    THEN @ ELSE Append(@, Head(mux.pipe[s]))]
       ELSE /\ mux.process = "exited"
            /\ ~mux.held[s]
            /\ mux' = [mux EXCEPT !.thread[s] = "done"]
    /\ UNCHANGED pc
    /\ RemuxFrame

Readers == \E s \in Streams : read_stream(s)

\* line 180: while process.poll() is None
RemuxPoll ==
    /\ pc = "remux_poll"
    /\ pc' = IF mux.process = "running" THEN "remux_round" ELSE "remux_join"
    /\ UNCHANGED mux
    /\ RemuxFrame

\* queue.get_nowait(): the first line of the queue, or queue.Empty
get_nowait(q) == IF q = << >> THEN "Empty" ELSE Head(q)

Rest(q) == IF q = << >> THEN q ELSE Tail(q)

\* line 241: output_size > 0 and output_size >= input_size * 0.95
appears_complete(output_size) ==
    output_size > 0 /\ output_size * 100 >= input_size * 95

\* lines 181-260, one round of the monitoring loop: one get_nowait on each
\* queue, where a progress line sets last_output_time (181-199); a grown
\* output file sets it too (211-233); an output file that appears complete
\* ends the loop if the process has finished (235-247); more than
\* TIMEOUT_SECONDS without output: kill, wait, return False (249-258);
\* otherwise sleep and go round again (260)
RemuxRound ==
    /\ pc = "remux_round"
    /\ LET progress == \E s \in Streams : get_nowait(mux.queue[s]) = "progress"
           grown == mux.output_size > mux.last_file_size
           since == IF progress \/ grown THEN 0 ELSE mux.since_output
           seen == [mux EXCEPT
                       !.queue = [s \in Streams |-> Rest(mux.queue[s])],
                       !.last_file_size = IF grown THEN mux.output_size ELSE @,
                       !.since_output = since]
       IN IF appears_complete(mux.output_size) /\ mux.process = "exited"
          THEN /\ mux' = seen
               /\ pc' = "remux_join"
          ELSE IF since > TIMEOUT_SECONDS
          THEN /\ mux' = [seen EXCEPT
                             !.process = "exited",
                             !.returncode = IF mux.process = "running"
                                            THEN -9 ELSE @,
                             !.result = "False"]
               /\ pc' = "remux_done"
          ELSE /\ \E dt \in RoundTimes :
                     mux' = [seen EXCEPT
                                !.since_output =
                                    IF since + dt > TIMEOUT_SECONDS + 1
                                    THEN TIMEOUT_SECONDS + 1 ELSE since + dt]
               /\ pc' = "remux_poll"
    /\ RemuxFrame

\* variant: join() without a timeout
join_returns_Unbounded(thread) == thread = "done"

\* lines 267, 270: thread.join(timeout=10) returns when the thread has ended
\* or when the 10 seconds are over
join_returns(thread) == TRUE

\* lines 266-272: both joins
RemuxJoin ==
    /\ pc = "remux_join"
    /\ \A s \in Streams : join_returns(mux.thread[s])
    /\ pc' = "remux_drain"
    /\ UNCHANGED mux
    /\ RemuxFrame

\* lines 274-298: empty output_queue, then error_queue, one line at a time
RemuxDrain ==
    /\ pc = "remux_drain"
    /\ IF mux.queue["stdout"] # << >>
       THEN /\ mux' = [mux EXCEPT !.queue["stdout"] = Tail(@)]
            /\ pc' = pc
       ELSE IF mux.queue["stderr"] # << >>
       THEN /\ mux' = [mux EXCEPT !.queue["stderr"] = Tail(@)]
            /\ pc' = pc
       ELSE /\ mux' = mux
            /\ pc' = "remux_wait"
    /\ RemuxFrame

\* lines 303-321: process.wait(timeout=60), kill after the timeout
RemuxWait ==
    /\ pc = "remux_wait"
    /\ mux' = [mux EXCEPT !.process = "exited",
                          !.returncode = IF mux.process = "running"
                                         THEN -9 ELSE @]
    /\ pc' = "remux_final"
    /\ RemuxFrame

\* lines 326-348: the return value
remux_result(output_size, returncode) ==
    IF output_size # -1
    THEN IF output_size > 0
         THEN IF returncode = 0 THEN TRUE ELSE TRUE
         ELSE FALSE
    ELSE FALSE

RemuxFinal ==
    /\ pc = "remux_final"
    /\ mux' = [mux EXCEPT !.result =
                  IF remux_result(mux.output_size, mux.returncode)
                  THEN "True" ELSE "False"]
    /\ pc' = "remux_done"
    /\ RemuxFrame

\* the steps of the thread that called remux_to_mkv
Monitor ==
    \/ RemuxPopen \/ RemuxPoll \/ RemuxRound
    \/ RemuxJoin \/ RemuxDrain \/ RemuxWait \/ RemuxFinal

RemuxNext ==
    \/ Monitor
    \/ FfmpegWrites \/ FfmpegGrows \/ FfmpegExits
    \/ Readers

SpecRemux == RemuxInit /\ [][RemuxNext]_vars

\* the calling thread keeps running; nothing is assumed of the readers
SpecRemuxLive == SpecRemux /\ WF_vars(Monitor)

----------------------------------------------------------------------------
(* Properties *)

\* Positions from which the transfer tool or the upload is invoked next
Transferring == pc \in {"download", "upload"}

\* What a process started now would load from the state file
Persisted == _load_state(stateFile)

\* C1: when the disk check finds less free space than file size + 2GB, the
\* process_file call has recorded a failure for the path (failed record with
\* an "insufficient disk space" reason, attempts incremented) when it returns.
C1_DiskGateRecordsFailure ==
    (pc = "return_false" /\ outcome = "disk_insufficient") =>
        /\ calls.mark_failed = 1
        /\ cur.path \in DOMAIN state.failed
        /\ state.failed[cur.path].attempts
              = (IF cur.path \in DOMAIN atLoad.failed
                 THEN atLoad.failed[cur.path].attempts ELSE 0) + 1
        /\ state.failed[cur.path].last_error = "insufficient disk space"

\* C2: the download loop (the only place the transfer tool is invoked from)
\* runs for a file only if the free space its disk check found is at least
\* size + 2GB, and for a file not yet processed in the run; a file rejected by
\* the check has had no transfer attempt; a file that fits goes on to the
\* download.
C2_NoTransferWithoutSpace ==
    /\ pc = "download" =>
          (free >= cur.size + 2 * GB /\ cur.path \notin processed)
    /\ outcome = "disk_insufficient" =>
          (free < cur.size + 2 * GB /\ calls.stream = 0 /\ pc = "return_false")
    /\ (free # -1 /\ free >= cur.size + 2 * GB) => pc = "download"

\* a file that would fit without the margin is rejected because of the margin
C2_Witness ==
    /\ pc = "return_false"
    /\ outcome = "disk_insufficient"
    /\ free >= cur.size
    /\ calls.stream = 0

\* C3: an exception raised while one file is processed is recorded as a
\* failure of that path, and the run still processes every candidate.
C3_ExceptionContained ==
    /\ error # "" => (calls.mark_failed = 1 /\ cur.path \in DOMAIN state.failed)
    /\ (error # "" /\ pc = "stopped") => processed = CandidatePaths

\* C4: a process_file call that ends with exhausted download attempts, with
\* the file not found after the download, or with a failed upload has
\* called mark_failed for the path and the record is in the state file when
\* the call returns.
C4_FailureAlwaysRecorded ==
    (pc = "return_false"
        /\ outcome \in {"download_failed", "not_found", "upload_failed"}) =>
        /\ calls.mark_failed = 1
        /\ cur.path \in DOMAIN state.failed
        /\ cur.path \in DOMAIN Persisted.failed
        /\ Persisted.failed[cur.path] = state.failed[cur.path]

\* C5 as stated: a path mark_completed has returned for stays completed and
\* no download or upload starts for it, in the same process and in the
\* process started after a crash.
C5_CompletedIsTerminal ==
    /\ \A p \in DOMAIN committed.completed :
          /\ pc # "stopped" => p \in DOMAIN state.completed
          /\ Transferring => cur.path # p
    /\ (pc = "loaded" /\ crash.happened) =>
          DOMAIN crash.committed.completed \subseteq DOMAIN state.completed

\* C5 as amended: a path whose completed record has reached the state file
\* keeps that record in the file, is completed in every process running then
\* or later, and no download or upload starts for it.
C5_PersistedCompletedIsTerminal ==
    /\ [](\A p \in DOMAIN Persisted.completed :
            /\ pc # "stopped" => p \in DOMAIN state.completed
            /\ Transferring => cur.path # p)
    /\ [][DOMAIN Persisted.completed \subseteq DOMAIN Persisted'.completed]_vars

\* a later process skips a path whose completed record it loaded
C5_Witness ==
    /\ runs > 1
    /\ pc = "return_true"
    /\ outcome = "skipped_done"
    /\ cur.path \in DOMAIN Persisted.completed
    /\ cur.path \in DOMAIN atLoad.completed

\* C6: a run whose candidates were all completed when the state was loaded
\* makes no download and no upload, counts every file as successful and
\* leaves the state (records and counters) as loaded.
C6_AllDoneRunIsIdle ==
    (CandidatePaths \subseteq DOMAIN atLoad.completed) =>
        /\ calls.stream = 0
        /\ calls.upload = 0
        /\ ~Transferring
        /\ state = atLoad
        /\ failed = 0
        /\ pc = "stopped" => successful = Cardinality(CandidatePaths)

C6_Witness ==
    /\ pc = "stopped"
    /\ CandidatePaths \subseteq DOMAIN atLoad.completed
    /\ successful = Cardinality(CandidatePaths)
    /\ state.stats.total_uploaded = Cardinality(CandidatePaths)

\* C7: the download loop calls the transfer tool at most 5 times for a file;
\* when all 5 attempts failed, mark_failed is called once, the attempts of
\* the path are one more than when the state was loaded, and the file is not
\* tried again in the run.
C7_RetryExhaustion ==
    /\ pc = "download" =>
          (calls.stream = attempt - 1 /\ attempt <= 5 /\ cur.path \notin processed)
    /\ pc = "download_failed" => (calls.stream = 5 /\ calls.mark_failed = 0)
    /\ outcome = "download_failed" =>
          /\ calls.stream = 5
          /\ calls.mark_failed = 1
          /\ cur.path \in DOMAIN state.failed
          /\ state.failed[cur.path].attempts
                = (IF cur.path \in DOMAIN atLoad.failed
                   THEN atLoad.failed[cur.path].attempts ELSE 0) + 1

C7_Witness ==
    /\ pc = "return_false"
    /\ outcome = "download_failed"
    /\ calls.stream = 5

\* The process that crashed had called mark_in_progress for a path, the call
\* had returned, and no mark_completed / mark_failed had followed
CrashedInProgress ==
    /\ pc = "loaded"
    /\ crash.happened
    /\ crash.slot # NoneSlot
    /\ ~crash.insave

\* The path is neither completed nor out of retries: process_file takes it up
Eligible(s, p) ==
    /\ p \notin DOMAIN s.completed
    /\ ~(p \in DOMAIN s.failed /\ s.failed[p].attempts >= 3)

\* C8 as stated: after a crash that follows mark_in_progress(path), the
\* reloaded state names that path in the in-progress slot, the path is not
\* completed and the next run takes it up again.
C8_InProgressSurvivesCrash ==
    CrashedInProgress =>
        /\ state.in_progress = crash.slot
        /\ Eligible(state, crash.slot[1].path)

\* C8 as amended: the same, when no write of the state file had failed in
\* the crashed process since its last successful one.
C8_SavedInProgressSurvivesCrash ==
    (CrashedInProgress /\ ~crash.dirty) =>
        /\ state.in_progress = crash.slot
        /\ Eligible(state, crash.slot[1].path)

C8_Witness ==
    /\ CrashedInProgress
    /\ ~crash.dirty
    /\ state.in_progress = crash.slot
    /\ Eligible(state, crash.slot[1].path)

\* C9: as long as no write of the state file has failed, the state file
\* holds the completed and failed records of the last mark_* call that
\* returned, so that the process started after a crash at any point loads
\* exactly them.
C9_CommittedSurvivesCrash ==
    /\ (pc # "stopped" /\ ~dirty) => Records(Persisted) = committed
    /\ (pc = "loaded" /\ crash.happened /\ ~crash.dirty) =>
          Records(state) = crash.committed

\* a crash after a completion and a failure had been committed
C9_Witness ==
    /\ pc = "loaded"
    /\ crash.happened
    /\ ~crash.dirty
    /\ DOMAIN crash.committed.completed # {}
    /\ DOMAIN crash.committed.failed # {}
    /\ Records(state) = crash.committed

\* C10: the state file never holds a partly written document; it changes
\* only in _save_state, and then to the whole document of the state being
\* saved.
C10_StateFileAlwaysComplete ==
    /\ [](stateFile.kind \in {"absent", "doc"})
    /\ [][stateFile' # stateFile =>
            (pc = "save_replace" /\ stateFile' = Document(state))]_vars

\* a crash in the middle of the write: the temp file is partly written, the
\* state file still holds the document written before
C10_Witness ==
    /\ crash.happened
    /\ crash.insave
    /\ tempFile.kind = "partial"
    /\ stateFile.kind = "doc"

\* The state the constructor loaded came out of the v1.0 migration
LoadedMigrated ==
    \E p \in DOMAIN atLoad.completed : atLoad.completed[p].media_key = None

\* C11: right after a StateManager is constructed over a v1.0 state file
\* (completed a list of paths), and before any call on it, completed holds
\* exactly the listed paths, each with media_key null and size 0; a later
\* mark_completed or mark_failed call on the migrated state records the
\* completion (size, key) or the failure (reason) of its path and keeps the
\* migrated paths completed.
C11_MigrationOnLoad ==
    /\ (pc = "sm_idle" /\ calls.marks = 0 /\ stateFile.kind = "doc"
           /\ stateFile.doc.version = "1.0") =>
          /\ state.version = "2.0"
          /\ DOMAIN state.completed =
                {stateFile.doc.completed[i] :
                    i \in 1..Len(stateFile.doc.completed)}
          /\ \A p \in DOMAIN state.completed :
                state.completed[p].media_key = None /\ state.completed[p].size = 0
    /\ (LoadedMigrated /\ pc = "sm_idle" /\ outcome = "mark_completed") =>
          /\ DOMAIN atLoad.completed \subseteq DOMAIN state.completed
          /\ cur.path \in DOMAIN state.completed
          /\ state.completed[cur.path].media_key = media_key
          /\ state.completed[cur.path].size = cur.size
          /\ cur.path \notin DOMAIN state.failed
    /\ (LoadedMigrated /\ pc = "sm_idle" /\ outcome \in SMReasons) =>
          /\ DOMAIN atLoad.completed \subseteq DOMAIN state.completed
          /\ cur.path \in DOMAIN state.failed
          /\ state.failed[cur.path].last_error = outcome

\* a migrated path is completed again, now with its media key
C11_Witness ==
    /\ LoadedMigrated
    /\ pc = "sm_idle"
    /\ outcome = "mark_completed"
    /\ cur.path \in DOMAIN atLoad.completed
    /\ atLoad.completed[cur.path].size = 0
    /\ state.completed[cur.path].media_key \in MediaKeys

\* C12: when the progress samples read last brought no byte and the first
\* and the last of them are more than 300 s apart, the transfer has been
\* declared stuck; when every sample read so far brought more than 10 MB, it
\* has not been declared stuck.
C12_StallDetection ==
    /\ (proc.still_since # -1 /\ proc.sample_time - proc.still_since > 300) =>
          proc.kill_called
    /\ (proc.child # "none" /\ proc.all_big) => ~proc.kill_called

\* stuck is declared for a transfer that had moved before
C12_Witness ==
    /\ proc.kill_called
    /\ proc.transferred > 0
    /\ proc.still_since # -1
    /\ proc.sample_time - proc.still_since > 300

\* C13 as stated: stream_file_from_ftp returns True exactly when the child
\* exited with status 0 and the local file exists with a size above zero.
C13_SuccessIffExitZeroAndNonEmptyFile ==
    pc = "stream_done" =>
        (proc.result <=>
            /\ proc.returncode = 0
            /\ local_path \in DOMAIN local
            /\ local[local_path] > 0)

\* C14 as stated: a stream_file_from_ftp call that declared the transfer
\* stuck and called process.kill() returns False.
C14_StuckAttemptFails ==
    (pc = "stream_done" /\ proc.kill_called) => ~proc.result

\* The step that ends the upload-success branch of process_file: the unlink of
\* lines 574-578, or the death of the process just before it
AfterMarkCompleted == pc = "unlink" /\ pc' \in {"return_true", "stopped"}

\* C15 as stated: on upload success process_file first records the path as
\* completed in the persisted state and only then deletes the local file; a
\* crash between the two steps leaves the path completed for the next process.
C15_Original ==
    [][AfterMarkCompleted =>
          cur.path \in DOMAIN _load_state(stateFile').completed]_vars

\* C15 amended: on upload success mark_completed has run before the local
\* file is touched and before the next candidate is taken: the path is
\* completed in memory, and whenever the write of the state file did not fail
\* the state file holds its completion record with the uploaded size and the
\* media key, also when the process dies before the unlink.  The unlink then
\* removes at most the local file of this path.
C15_CompletedBeforeDelete ==
    [][AfterMarkCompleted =>
          /\ cur.path \in DOMAIN state.completed
          /\ state.completed[cur.path].media_key = media_key
          /\ state.completed[cur.path].size = cur.size
          /\ ~dirty =>
                /\ cur.path \in DOMAIN _load_state(stateFile').completed
                /\ _load_state(stateFile').completed[cur.path]
                      = state.completed[cur.path]
          /\ pc' = "return_true" =>
                /\ local' \in {local, Remove(local, local_path)}
                /\ cur' = cur]_vars

\* the completion record is on disk and the local file is gone when
\* process_file is about to return True
C15_Witness ==
    /\ pc = "return_true"
    /\ outcome = "completed"
    /\ ~dirty
    /\ cur.path \in DOMAIN Persisted.completed
    /\ local_path \notin DOMAIN local

\* The paths whose upload failed in this run: mark_failed recorded
\* "Upload failed after all retries" for them since the state was loaded
UploadFailedHere ==
    {p \in (processed \cup {cur.path}) \cap DOMAIN state.failed :
        /\ state.failed[p].last_error = "Upload failed after all retries"
        /\ state.failed[p].attempts
              > (IF p \in DOMAIN atLoad.failed
                 THEN atLoad.failed[p].attempts ELSE 0)}

\* The local files kept for them in temp_dir
KeptFiles ==
    {f \in DOMAIN local :
        \E p \in UploadFailedHere : f \in {safe_name(basename(p)), basename(p)}}

\* C16: on upload failure process_file calls mark_failed for the path and the
\* local file is retained: no step of the run, the end-of-run cleanup
\* included, deletes it.
C16_FailedUploadKeepsLocalFile ==
    [][pc # "stopped" => \A f \in KeptFiles : f \in DOMAIN local']_vars

\* C17: process_file called for a path that is not completed.  When the path
\* has a failure record with attempts >= 3, the call returns False (counted
\* as failed by the traversal) and changes neither the state in memory nor the
\* state file, and calls neither the transfer tool nor the upload.  When the
\* path never failed or has fewer than 3 attempts, it is processed: it
\* becomes the in-progress file and the call goes on to the disk check.
C17_RetryGate ==
    [][/\ (pc = "traverse" /\ queue # << >> /\ pc' # "stopped"
           /\ Head(queue).path \notin DOMAIN state.completed) =>
             IF /\ Head(queue).path \in DOMAIN state.failed
                /\ state.failed[Head(queue).path].attempts >= max_failures
             THEN /\ pc' = "return_false"
                  /\ cur' = Head(queue)
                  /\ calls' = NoCalls
                  /\ state' = state
                  /\ stateFile' = stateFile /\ tempFile' = tempFile
                  /\ local' = local
             ELSE /\ pc' = "save_open" /\ ret' = "disk_check"
                  /\ cur' = Head(queue)
                  /\ state'.in_progress
                        = << [path |-> Head(queue).path,
                              size |-> Head(queue).size] >>
       /\ (pc = "return_false" /\ outcome = "skipped_exhausted"
           /\ pc' # "stopped") =>
             /\ calls = NoCalls
             /\ failed' = failed + 1
             /\ state' = state
             /\ stateFile' = stateFile /\ tempFile' = tempFile
             /\ local' = local]_vars

\* a path with 3 recorded failures has just been skipped
C17_Witness ==
    /\ pc = "return_false"
    /\ outcome = "skipped_exhausted"
    /\ cur.path \in DOMAIN state.failed
    /\ state.failed[cur.path].attempts >= max_failures
    /\ state.in_progress = NoneSlot

\* A step that is the call mark_completed(cur'.path, cur'.size, media_key')
\* on a StateManager used on its own
MarkCompletedCall == pc = "sm_idle" /\ outcome' = "mark_completed"

\* What every mark_completed call does to the records and the slot: the path
\* leaves failed, its completion record carries the size and the key given,
\* the in-progress slot is cleared, nothing else is touched
MarkCompletedRecords ==
    /\ DOMAIN state'.failed = DOMAIN state.failed \ {cur'.path}
    /\ \A p \in DOMAIN state'.failed : state'.failed[p] = state.failed[p]
    /\ DOMAIN state'.completed = DOMAIN state.completed \cup {cur'.path}
    /\ state'.completed[cur'.path].media_key = media_key'
    /\ state'.completed[cur'.path].size = cur'.size
    /\ \A p \in DOMAIN state.completed \ {cur'.path} :
          state'.completed[p] = state.completed[p]
    /\ state'.in_progress = NoneSlot
    /\ state'.skipped = state.skipped
    /\ state'.stats.total_failed = state.stats.total_failed

\* C18 as stated: every mark_completed(path, size, key) removes the path from
\* failed, records the completion with that size and key, increases
\* total_uploaded by exactly 1 and total_bytes by exactly size, and clears the
\* in-progress slot.
C18_Original ==
    [][MarkCompletedCall =>
          /\ MarkCompletedRecords
          /\ state'.stats.total_uploaded = state.stats.total_uploaded + 1
          /\ state'.stats.total_bytes = state.stats.total_bytes + cur'.size]_vars

\* C18 amended: every mark_completed(path, size, key) removes the path from
\* failed, records the completion with that size and key and clears the
\* in-progress slot; total_uploaded grows by 1 and total_bytes by size when
\* the path was not completed before the call, and both stay as they are when
\* it already was (its record is replaced).
C18_CountsOncePerPath ==
    [][MarkCompletedCall =>
          /\ MarkCompletedRecords
          /\ IF cur'.path \in DOMAIN state.completed
             THEN /\ state'.stats.total_uploaded = state.stats.total_uploaded
                  /\ state'.stats.total_bytes = state.stats.total_bytes
             ELSE /\ state'.stats.total_uploaded
                        = state.stats.total_uploaded + 1
                  /\ state'.stats.total_bytes
                        = state.stats.total_bytes + cur'.size]_vars

\* the first call made on the object is mark_completed for a path that the
\* loaded state already had as completed, and the counter has not moved
C18_Witness ==
    /\ outcome = "mark_completed"
    /\ calls.marks = 1
    /\ cur.path \in DOMAIN atLoad.completed
    /\ state.completed[cur.path].size = cur.size
    /\ state.stats.total_uploaded = atLoad.stats.total_uploaded
    /\ state.stats.total_bytes = atLoad.stats.total_bytes

\* A step that is the call mark_failed(cur'.path, outcome') on a StateManager
\* used on its own
MarkFailedCall == pc = "sm_idle" /\ outcome' \in SMReasons

\* C19: every mark_failed(path, reason) increases the attempts of the path by
\* exactly 1 (from 0 when it had no failure record), sets last_error to the
\* reason, increases total_failed by 1, clears the in-progress slot, and
\* leaves the failure records of all other paths and the completed records
\* unchanged.
C19_MarkFailedCounts ==
    [][MarkFailedCall =>
          /\ DOMAIN state'.failed = DOMAIN state.failed \cup {cur'.path}
          /\ state'.failed[cur'.path].attempts
                = (IF cur'.path \in DOMAIN state.failed
                   THEN state.failed[cur'.path].attempts ELSE 0) + 1
          /\ state'.failed[cur'.path].last_error = outcome'
          /\ state'.stats.total_failed = state.stats.total_failed + 1
          /\ state'.in_progress = NoneSlot
          /\ \A p \in DOMAIN state.failed \ {cur'.path} :
                state'.failed[p] = state.failed[p]
          /\ state'.completed = state.completed]_vars

\* a second failure of a path was recorded while another path has a failure
\* record and a completed record exists
C19_Witness ==
    /\ outcome \in SMReasons
    /\ pc = "sm_idle"
    /\ state.failed[cur.path].attempts >= 2
    /\ state.failed[cur.path].last_error = outcome
    /\ DOMAIN state.failed # {cur.path}
    /\ DOMAIN state.completed # {}
    /\ state.in_progress = NoneSlot

\* The mutation of the last mark_* call (named by outcome, with arguments cur
\* and media_key) as the queries see it in state s
Carries(s) ==
    /\ outcome = "mark_in_progress" =>
          s.in_progress = << [path |-> cur.path, size |-> cur.size] >>
    /\ outcome = "mark_completed" =>
          /\ is_completed(s, cur.path)
          /\ s.completed[cur.path].media_key = media_key
          /\ ~is_failed(s, cur.path)
    /\ outcome \in SMReasons =>
          /\ is_failed(s, cur.path)
          /\ get_failure_count(s, cur.path) >= 1
          /\ s.failed[cur.path].last_error = outcome
    /\ outcome = "mark_skipped" => cur.path \in Range(s.skipped)
    /\ outcome # "mark_in_progress" => s.in_progress = NoneSlot

\* C20: when the write of the state fails inside a mark_in_progress,
\* mark_completed, mark_failed or mark_skipped call, the call returns without
\* an error, the state in memory carries the mutation and answers the
\* queries, and the state file is the one that was there before the call.
C20_SaveFailureIsSwallowed ==
    [][/\ (pc \in {"save_open", "save_dump"}) => stateFile' = stateFile
       /\ (pc \in SavePcs /\ pc' \notin SavePcs /\ dirty') =>
             /\ pc' = "sm_idle"
             /\ error' = error
             /\ state' = state
             /\ Carries(state')
             /\ stateFile' = stateFile]_vars

\* mark_completed has returned after a failed write: the object answers
\* is_completed with True while the state file does not have the path
C20_Witness ==
    /\ pc = "sm_idle"
    /\ dirty
    /\ error = ""
    /\ outcome = "mark_completed"
    /\ is_completed(state, cur.path)
    /\ ~is_completed(Persisted, cur.path)

\* The files in temp_dir that belong to candidates the traversal of this run
\* has already dealt with
EarlierFiles ==
    {f \in DOMAIN local :
        \E p \in processed \ {cur.path} :
            f \in {safe_name(basename(p)), basename(p)}}

\* C21: local disk holds at most one downloaded file of the candidates: when
\* the download of a candidate starts, no file of an earlier candidate of the
\* run is still in temp_dir.
C21_OneFileOnDisk ==
    (pc = "download" /\ calls.stream = 0) => EarlierFiles = {}

\* C22: the size stored on a completed record by the pipeline is the size of
\* the local file that was verified and uploaded, also when it differs from
\* the size of the remote listing.
C22_RecordHasLocalSize ==
    (pc = "unlink" /\ local_path \in DOMAIN local) =>
        state.completed[cur.path].size = local[local_path]

\* C23: given a local partial file of length L with 0 < L < remote size,
\* download_file sends REST L before RETR and appends to the file, so that
\* the first L blocks are kept and the server sends from offset L, nothing
\* from offset zero.
C23_ResumesFromPartial ==
    (0 < ftp.had /\ ftp.had < ftp.remote_size /\ ftp.served_from # -1) =>
        /\ ftp.rest_arg = ftp.had
        /\ ftp.mode = "ab"
        /\ SubSeq(ftp.file, 1, ftp.had) = Blocks(ftp.had)
        /\ ftp.served_from = ftp.had

\* A step of the download loop in which the transfer tool exited with 0: it
\* has just written the whole file under the remote file name
ToolSucceeded ==
    LET file_name == basename(cur.path)
    IN /\ pc = "download"
       /\ file_name \in DOMAIN local'
       /\ local'[file_name] \in ActualSizes(cur)
       /\ file_name \notin DOMAIN local \/ local[file_name] # local'[file_name]

\* C24: when the transfer tool exits successfully and no file exists at the
\* sanitized local path while temp_dir holds the file under its original
\* name, process_file goes on to look for the file, verify and upload it; the
\* download is not treated as failed.
C24_FallbackAfterSuccessfulTransfer ==
    [][(ToolSucceeded /\ local_path \notin DOMAIN local') =>
          pc' = "verify_exists"]_vars

\* Position of the last "/" of a path, 0 without one
LastSlash(p) ==
    IF \E i \in 1..Len(p) : p[i] = "/"
    THEN CHOOSE i \in 1..Len(p) :
            p[i] = "/" /\ \A j \in (i + 1)..Len(p) : p[j] # "/"
    ELSE 0

\* os.path.dirname
dirname(p) == IF LastSlash(p) = 0 THEN << >> ELSE SubSeq(p, 1, LastSlash(p) - 1)

\* The directories on the way from the root to directory d, both included
Ancestors(d) ==
    {<< >>} \cup {SubSeq(d, 1, i) : i \in {i \in 1..Len(d) :
                                              i = Len(d) \/ d[i + 1] = "/"}}

\* The subdirectory of a through which directory d is reached
ChildToward(a, d) ==
    CHOOSE c \in Ancestors(d) : c # a /\ dirname(c) = a

\* Position of subdirectory c in the listing of its parent
ListingIndex(c) ==
    CHOOSE i \in 1..Len(SubPaths(dirname(c))) : SubPaths(dirname(c))[i] = c

\* size of a candidate, from the listing of its directory
ListedSize(p) ==
    (CHOOSE f \in Range(FileInfos(dirname(p), RemoteLs(dirname(p)))) :
        f.path = p).size

\* File p may be processed before file q in a depth-first pre-order
\* traversal that takes the files of a directory by size
MayPrecede(p, q) ==
    /\ dirname(p) = dirname(q) => ListedSize(p) <= ListedSize(q)
    /\ ~(dirname(q) \in Ancestors(dirname(p)) /\ dirname(q) # dirname(p))
    /\ \A a \in Ancestors(dirname(p)) \cap Ancestors(dirname(q)) :
          (a # dirname(p) /\ a # dirname(q)
             /\ ChildToward(a, dirname(p)) # ChildToward(a, dirname(q))) =>
          ListingIndex(ChildToward(a, dirname(p)))
              < ListingIndex(ChildToward(a, dirname(q)))

\* C25: the traversal is depth-first pre-order: every file of a directory
\* is processed before any file of its subdirectories, subdirectories are
\* visited in listing order (each with everything below it), and the files
\* of one directory are processed in non-decreasing size order.
C25_DepthFirstPreOrder ==
    \A p \in processed \ {cur.path} : MayPrecede(p, cur.path)

\* the whole deep tree has been walked: all 8 candidates, the last of them
\* from the subdirectory listed last
C25_Witness ==
    /\ remote = "deep"
    /\ pc = "stopped"
    /\ Cardinality(processed) = 8
    /\ successful + failed = 8
    /\ dirname(cur.path) = DirD

\* A step in which the loop reads a 'Transferred: x GiB' line
SampleRead == pc = "stream_read" /\ proc'.sample_time # proc.sample_time

\* The sample read leaves the stall timer cleared
TimerReset == proc'.stall_start_time = -1

\* C26 as stated: a progress sample resets the stall timer if and only if it
\* exceeds the sample read just before it by more than about 0.01 GiB.
C26_Original ==
    [][SampleRead =>
          LET ahead == Shown(proc'.transferred) - Shown(proc.transferred)
          IN /\ ahead > 10 => TimerReset
             /\ ahead < 10 => ~TimerReset]_vars

\* C26 amended: a progress sample resets the stall timer if and only if it
\* differs by about 0.01 GiB or more from the last sample that reset the
\* timer (0 before any did); it then becomes the sample to compare with.  A
\* sample that differs by less leaves the timer running (starting it if it
\* was not running) and is not compared with again.
C26_ResetAgainstLastProgress ==
    [][SampleRead =>
          LET ahead == Abs(Shown(proc'.transferred) - proc.last_transferred_gb)
          IN /\ ahead > 10 => TimerReset
             /\ ahead < 10 => ~TimerReset
             /\ TimerReset =>
                   proc'.last_transferred_gb = Shown(proc'.transferred)
             /\ ~TimerReset =>
                   /\ proc'.last_transferred_gb = proc.last_transferred_gb
                   /\ proc'.stall_start_time
                         = (IF proc.stall_start_time = -1 THEN proc'.now
                            ELSE proc.stall_start_time)]_vars

\* two samples 6 MiB apart: the second one has reset the timer
C26_Witness ==
    /\ proc.transferred = 2 * 6 * KiB
    /\ proc.last_transferred_gb = Shown(proc.transferred)
    /\ proc.stall_start_time = -1
    /\ proc.child # "none"

\* C27: a transfer process that stays alive without forward byte progress
\* for longer than the stall threshold is eventually killed by
\* stream_file_from_ftp, whatever it writes or fails to write on its output,
\* so every transfer attempt eventually ends.
C27_SilentChildIsKilled ==
    (proc.child = "hung") ~> (proc.kill_called /\ pc = "stream_done")

\* The steps of a process_file call between the last failed download attempt
\* and its return
AfterDownloadFailed ==
    \/ pc = "download_failed"
    \/ outcome = "download_failed" /\ pc \in SavePcs \cup {"return_false"}

\* C28: the retry loop never deletes or truncates the partial file of a
\* failed attempt: after a failed attempt every file of temp_dir is still
\* there, a partial one with at least the length it had, the steps after the
\* last attempt leave temp_dir as it is, and the wait before every attempt
\* after the first is the same 60 seconds.
C28_PartialFileKept ==
    [][/\ (pc = "download" /\ pc' \in {"download", "download_failed"}) =>
             /\ \A f \in DOMAIN local :
                   /\ f \in DOMAIN local'
                   /\ local[f] = PartialSize => local'[f] >= local[f]
             /\ calls'.slept = 60 * (calls'.stream - 1)
       /\ AfterDownloadFailed => local' = local]_vars

\* all 5 attempts have failed, four waits of 60 s lie behind, and the partial
\* file is still in temp_dir when process_file returns
C28_Witness ==
    /\ pc = "return_false"
    /\ outcome = "download_failed"
    /\ calls.stream = max_download_attempts
    /\ calls.slept = 240
    /\ basename(cur.path) \in DOMAIN local
    /\ local[basename(cur.path)] = PartialSize

\* C29: the size check is advisory: every step that leaves the size check
\* with the local file in place goes on to the upload, whatever the two
\* sizes are, and mark_failed is only ever called after the download attempts
\* or the upload attempts are used up.
C29_SizeCheckIsAdvisory ==
    [][/\ (pc = "verify_size" /\ local_path \in DOMAIN local
            /\ pc' \notin {"verify_size", "stopped"}) => pc' = "upload_start"
       /\ calls'.mark_failed > calls.mark_failed =>
             \/ pc = "download_failed" /\ calls.stream = max_download_attempts
             \/ pc = "upload_failed" /\ calls.upload = MAX_RETRIES]_vars

\* a file more than the tolerance away from the listed size has been uploaded
C29_Witness ==
    /\ pc = "uploaded"
    /\ local_path \in DOMAIN local
    /\ size_check(local[local_path], cur.size) = "warning"
    /\ calls.upload >= 1
    /\ calls.mark_failed = 0

\* An attempt of upload_to_google_photos
UploadAttempt == pc = "upload" /\ calls'.upload = calls.upload + 1

\* C30: upload_to_google_photos makes at most MAX_RETRIES attempts; an attempt
\* that ends with a media key for the file is the last one and its key is what
\* the function returns; the function gives up, returning None, only after
\* MAX_RETRIES attempts of which none ended with a key; it sleeps RETRY_DELAY
\* after every failed attempt but the last, and never after the final one.
C30_UploadRetries ==
    [][/\ UploadAttempt =>
             /\ calls'.upload <= MAX_RETRIES
             /\ calls'.upload = uattempt
             /\ IF calls'.answer \in MediaKeys /\ local_path \in DOMAIN local
                THEN /\ pc' = "uploaded"
                     /\ media_key' = calls'.answer
                     /\ calls'.waited = calls.waited
                ELSE /\ media_key' = None
                     /\ pc' = IF uattempt < MAX_RETRIES
                              THEN "upload" ELSE "upload_failed"
                     /\ calls'.waited = RETRY_DELAY * calls'.upload
                           - (IF uattempt < MAX_RETRIES THEN 0 ELSE RETRY_DELAY)
       /\ pc \in {"uploaded", "upload_failed"} =>
             /\ calls'.upload = calls.upload \/ calls' = NoCalls
             /\ (pc = "upload_failed") <=> (media_key = None)
             /\ calls.waited = RETRY_DELAY * (calls.upload - 1)]_vars

\* the third attempt is the first that ends with a media key: two waits
C30_Witness ==
    /\ pc = "uploaded"
    /\ calls.upload = MAX_RETRIES
    /\ calls.waited = 120
    /\ media_key \in MediaKeys

\* C31: when ffmpeg ends with an exit code other than 0, remux_to_mkv returns
\* True only if the output file exists, is not empty and is at least 95% of
\* the size of the input file.
C31_AmbiguousExitNeedsRatio ==
    (pc = "remux_done" /\ mux.result = "True" /\ mux.returncode # 0) =>
        appears_complete(mux.output_size)

\* A step of one of the two reader threads
ReaderStep ==
    \E s \in Streams :
        /\ mux.thread[s] = "reading"
        /\ \/ Len(mux'.pipe[s]) < Len(mux.pipe[s])
           \/ mux'.thread[s] = "done"

\* C32: a reader thread only moves lines from its pipe to its queue: it
\* leaves the position and the variables of the monitoring thread alone and
\* takes nothing out of a queue; and once the ffmpeg process has exited,
\* remux_to_mkv returns, whatever the readers do and even if one of them
\* never ends.
C32_ReturnsAfterExit ==
    /\ [][ReaderStep =>
            /\ pc' = pc
            /\ \A s \in Streams :
                  /\ Len(mux'.queue[s]) >= Len(mux.queue[s])
                  /\ SubSeq(mux'.queue[s], 1, Len(mux.queue[s])) = mux.queue[s]
            /\ [mux' EXCEPT !.pipe = mux.pipe, !.queue = mux.queue,
                            !.thread = mux.thread] = mux]_vars
    /\ (mux.process = "exited") ~> (pc = "remux_done")

\* remux_to_mkv has returned True although a reader thread is still blocked
\* on a pipe that never reaches its end
C32_Witness ==
    /\ pc = "remux_done"
    /\ mux.result = "True"
    /\ \E s \in Streams : mux.thread[s] = "reading" /\ mux.held[s]

\* The failure records of the state in memory and of the two files of the
\* state directory
FailureRecords == {state.failed, stateFile.doc.failed, tempFile.doc.failed}

C34_CompletedOnlyAfterUpload ==
    [][/\ \A p \in DOMAIN state'.completed \ DOMAIN state.completed :
             \/ /\ pc = "uploaded"
                /\ p = cur.path
                /\ calls.upload >= 1
                /\ calls.answer \in MediaKeys
                /\ state'.completed[p].media_key = calls.answer
             \/ /\ pc = "stopped"
                /\ p \in DOMAIN stateFile.doc.completed
                /\ state'.completed[p] = stateFile.doc.completed[p]
       /\ \A p \in DOMAIN tempFile'.doc.completed \ DOMAIN tempFile.doc.completed :
             p \in DOMAIN state.completed
       /\ \A p \in DOMAIN stateFile'.doc.completed
                      \ DOMAIN stateFile.doc.completed :
             p \in DOMAIN tempFile.doc.completed]_vars

\* the upload has answered with a key and the path is completed under that
\* key, in memory and in the state file
C34_Witness ==
    /\ pc = "unlink"
    /\ calls.answer \in MediaKeys
    /\ cur.path \in DOMAIN state.completed
    /\ state.completed[cur.path].media_key = calls.answer
    /\ cur.path \in DOMAIN stateFile.doc.completed
    /\ cur.path \notin DOMAIN atLoad.completed

\* A StateManager constructed without a readable state file: it started
\* from _create_new_state()
FreshObject == pc # "sm_new" /\ atLoad = _create_new_state

\* C35: after any sequence of mark_* calls on a fresh state,
\* stats.total_uploaded is the number of completed records.
C35_UploadedCountsRecords ==
    FreshObject =>
        state.stats.total_uploaded = Cardinality(DOMAIN state.completed)

\* three calls have left two completed records: one path was marked twice
C35_Witness ==
    /\ FreshObject
    /\ pc = "sm_idle"
    /\ calls.marks = 3
    /\ state.stats.total_uploaded = 2
    /\ DOMAIN state.completed = SMPaths
    /\ state.failed = EmptyMap

RECURSIVE SumOfSizes(_)
SumOfSizes(records) ==
    IF DOMAIN records = {} THEN 0
    ELSE LET p == CHOOSE q \in DOMAIN records : TRUE
         IN records[p].size + SumOfSizes(Remove(records, p))

\* C36: after any sequence of mark_* calls on a fresh state, also one that
\* marks a path completed twice with different sizes, stats.total_bytes is
\* the sum of the sizes of the completed records.
C36_BytesSumRecords ==
    FreshObject => state.stats.total_bytes = SumOfSizes(state.completed)

\* C37: after any sequence of mark_completed and mark_failed calls no path is
\* in the completed records and in the failed records at the same time.
C37_CompletedOrFailed ==
    FreshObject => DOMAIN state.completed \cap DOMAIN state.failed = {}

\* C38: whenever process_file returns, the in-progress slot of the state is
\* empty.
C38_SlotEmptyOnReturn ==
    pc \in {"return_true", "return_false"} => state.in_progress = NoneSlot

\* C39: a state file that exists but cannot be parsed: the constructor ends
\* without an error with the state of _create_new_state(), the load leaves
\* the file as it is, and the file changes only when the _save_state of a
\* later mark_* call replaces it with the state in memory.
C39_UnreadableStateFile ==
    [][stateFile.kind = "partial" =>
          /\ pc = "sm_new" =>
                /\ pc' = "sm_idle"
                /\ state' = _create_new_state
                /\ stateFile' = stateFile
          /\ stateFile' # stateFile =>
                /\ pc = "save_replace"
                /\ calls.marks >= 1
                /\ stateFile' = Document(state)]_vars

\* the constructor has run over an unreadable state file; no call yet
C39_Witness ==
    /\ pc = "sm_idle"
    /\ stateFile.kind = "partial"
    /\ calls.marks = 0
    /\ state = _create_new_state

\* C40: download_file returns True only if the local file exists with the
\* length the server reported for the remote file (found so on entry, or
\* after the transfer); with any other final length, whatever the length the
\* local file started with, it returns False; and no step deletes the local
\* file.
C40_TrueOnlyForFullLength ==
    /\ [](pc = "ftp_done" =>
            /\ ftp.result \in {"True", "False"}
            /\ ftp.result = "True" =>
                  (ftp.exists /\ ftp.size # -1 /\ Len(ftp.file) = ftp.size))
    /\ [][ftp.exists => ftp'.exists]_vars

\* a local file longer than the remote one: a transfer was started, False is
\* returned and the file is still there
C40_Witness ==
    /\ pc = "ftp_done"
    /\ ftp.had > ftp.remote_size
    /\ ftp.served_from # -1
    /\ ftp.result = "False"
    /\ ftp.exists
    /\ Len(ftp.file) >= ftp.had

====
